---- MODULE Spec2Model ----
(***************************************************************************)
(* A model of github.com/RussellLuo/slidingwindow: the Limiter (admission  *)
(* and rollover), the Local and Synchronized windows, the Blocking and     *)
(* Non-blocking synchronizers with their background goroutine, and the     *)
(* Datastore they exchange counts with.                                    *)
(*                                                                         *)
(* Instants are integers counting ticks since the Unix epoch; a tick is    *)
(* 100ms, the step the repository's tests use.  A time.Duration is a       *)
(* number of ticks.                                                        *)
(***************************************************************************)
EXTENDS Integers, Sequences, FiniteSets, TLC

\* ------------------------------------------------------------------------
\* Bounds of the model
\* ------------------------------------------------------------------------

\* The instants a caller passes as `now` are 0..MaxTime.
MaxTime == 4

\* The event counts a caller passes as `n` are 0..MaxN.
MaxN == 2

\* Other instances add to a window's Datastore total while it is below
\* MaxOther.
MaxOther == 1

\* The limits SetLimit is called with are 1..MaxNewLimit.
MaxNewLimit == 3

\* The goroutines that call one limiter concurrently are 1..MaxThreads.
MaxThreads == 2

\* The interpolation is compared for previous counts up to MaxPrevCount.
MaxPrevCount == 100

\* Successful synchronization rounds are counted up to MaxRounds.
MaxRounds == 2

\* The scripted scenario is started at the window boundaries
\* 0, 1, ..., MaxT0 scenario lengths after the epoch.
MaxT0 == 7

\* The number of Stop() calls made on one limiter's stop function.
MaxStops == 2

\* Window sizes, limits and sync intervals the limiters are built with.
Sizes == {2}
Limits == {2}
Intervals == {1}
Kinds == {"local", "blocking", "nonblocking"}

Times == 0..MaxTime
Ns == 0..MaxN

\* ------------------------------------------------------------------------
\* time.Time and time.Duration
\* ------------------------------------------------------------------------

\* The zero time.Time (January 1, year 1) precedes the Unix epoch by
\* 719162 days of 864000 ticks.  time.Truncate rounds down to a multiple
\* of d since the zero time, so what matters is that offset modulo d.
ZeroToUnixMod(d) == ((719162 % d) * (864000 % d)) % d

\* Rounding down to a multiple of d in Unix time.
Truncate_Unix(t, d) == t - (t % d)

\* t.Truncate(d), d > 0.
Truncate(t, d) == t - (((t % d) + ZeroToUnixMod(d)) % d)

\* Go's integer division truncates toward zero.
Quot(a, b) == IF a >= 0 THEN a \div b ELSE -((-a) \div b)

\* The zero value of syncHelper.lastSynced.  It lies some two thousand
\* years before every modelled instant, so now.Sub(lastSynced) exceeds
\* every sync interval.
ZeroTime == -1

\* ------------------------------------------------------------------------
\* float64 arithmetic of the interpolation
\*
\* A positive float64 is kept as its 53-bit significand m and the exponent
\* g with value = m * 2^(g - 53).  The significand is held in four limbs,
\* most significant first, of 14, 13, 13 and 13 bits.  The operands are
\* small integers (below 2^13), which float64 represents exactly.
\* ------------------------------------------------------------------------

Limb == 8192

\* The exponent g with 2^(g-1) <= a/b < 2^g; the result's a/b is the
\* quotient scaled into [1/2, 1).
RECURSIVE NormUp(_, _, _)
NormUp(a, b, g) ==
    IF a >= b THEN NormUp(a, 2 * b, g + 1) ELSE [a |-> a, b |-> b, g |-> g]

RECURSIVE NormDown(_, _, _)
NormDown(a, b, g) ==
    IF 2 * a < b THEN NormDown(2 * a, b, g - 1) ELSE [a |-> a, b |-> b, g |-> g]

\* float64(a) / float64(b) for positive integers a, b: long division to 53
\* bits, rounded to nearest, ties to even.
F64Div(a, b) ==
    LET up == NormUp(a, b, 0)
        n == NormDown(up.a, up.b, up.g)
        x1 == n.a * 2 * Limb
        x2 == (x1 % n.b) * Limb
        x3 == (x2 % n.b) * Limb
        x4 == (x3 % n.b) * Limb
        q1 == x1 \div n.b
        q2 == x2 \div n.b
        q3 == x3 \div n.b
        q4 == x4 \div n.b
        r == x4 % n.b
        roundUp == 2 * r > n.b \/ (2 * r = n.b /\ q4 % 2 = 1)
        c4 == IF roundUp THEN 1 ELSE 0
        c3 == (q4 + c4) \div Limb
        c2 == (q3 + c3) \div Limb
        c1 == (q2 + c2) \div Limb
    IN IF q1 + c1 = 2 * Limb
       THEN [m |-> <<Limb, 0, 0, 0>>, g |-> n.g + 1]
       ELSE [m |-> <<q1 + c1, (q2 + c2) % Limb, (q3 + c3) % Limb,
                     (q4 + c4) % Limb>>,
             g |-> n.g]

\* int64(f * float64(p)) for a positive float64 f and an integer p > 0:
\* the exact product has 53 + e bits, is rounded to 53 bits (nearest, ties
\* to even) and converted by truncation.
F64MulToInt(f, p) ==
    LET t4 == f.m[4] * p
        t3 == f.m[3] * p + t4 \div Limb
        t2 == f.m[2] * p + t3 \div Limb
        top == f.m[1] * p + t2 \div Limb
        l4 == t4 % Limb
        l3 == t3 % Limb
        l2 == t2 % Limb
        e == CHOOSE k \in 0..13 : top < 2 * Limb * 2^k /\ top >= Limb * 2^k
        half == IF e = 0 THEN 0 ELSE 2^(e - 1)
        dropped == l4 % 2^e
        odd == IF e = 13 THEN l3 % 2 = 1 ELSE (l4 \div 2^e) % 2 = 1
        add == IF e = 0 \/ (dropped = half /\ ~odd) THEN 0 ELSE half
        c4 == (l4 + add) \div Limb
        c3 == (l3 + c4) \div Limb
        c2 == (l2 + c3) \div Limb
    IN (top + c2) \div 2^(14 - f.g)

\* int64(float64(a) / float64(b) * float64(p)) for integers a, p and b > 0.
F64Weighted(a, b, p) ==
    IF a = 0 \/ p = 0 THEN 0
    ELSE LET s == IF (a < 0) = (p < 0) THEN 1 ELSE -1
             aa == IF a < 0 THEN -a ELSE a
             pp == IF p < 0 THEN -p ELSE p
         IN s * F64MulToInt(F64Div(aa, b), pp)

\* The interpolation is evaluated once for the operands the bounded
\* model meets and looked up afterwards.
MaxTabCount == 6
WeightedTable ==
    [b \in Sizes, a \in 1..(2 * MaxTime + 1), p \in 1..MaxTabCount |->
        F64Weighted(a, b, p)]

WeightedCount(a, b, p) ==
    IF a = 0 \/ p = 0 THEN 0
    ELSE IF <<b, a, p>> \in DOMAIN WeightedTable THEN WeightedTable[b, a, p]
    ELSE F64Weighted(a, b, p)

\* ------------------------------------------------------------------------
\* State
\* ------------------------------------------------------------------------

VARIABLES
    cfg,      \* per limiter: size, the kind of its current window, syncInterval
    limit,    \* Limiter.limit
    curr,     \* Limiter.curr: start, count and (SyncWindow) changes
    prev,     \* Limiter.prev, always a LocalWindow: start, count
    mu,       \* Limiter.mu: TRUE while a call holds the lock
    call,     \* the call in progress on the limiter, or the last one made
    helper,   \* syncHelper: inProgress, lastSynced
    worker,   \* the syncLoop goroutine: where it stands, its req and resp
    stopC,    \* NonblockingSynchronizer.stopC has been closed
    exitC,    \* NonblockingSynchronizer.exitC has been closed
    stopper,  \* the callers of the limiter's StopFunc
    store,    \* the Datastore: total per window start (one key)
    clock,    \* the latest instant a caller has passed as now
    threads,  \* the goroutines calling the limiter concurrently: where
              \* each stands in its call, its arguments, locals and result
    rounds    \* history, kept for limiters that share their Datastore with
              \* another limiter: what each has admitted and synchronized
              \* in its current window

vars == <<cfg, limit, curr, prev, mu, call, helper, worker, stopC, exitC,
          stopper, store, clock, threads, rounds>>

\* SyncRequest and SyncResponse; the zero values.
NoReq == [start |-> 0, count |-> 0, changes |-> 0]
NoResp == [ok |-> FALSE, start |-> 0, changes |-> 0, other |-> 0]

\* A window; changes is the SyncWindow's field and stays 0 in a LocalWindow.
NoWin == [start |-> 0, count |-> 0, changes |-> 0]

\* What a call leaves behind for inspection: its arguments, its result
\* (ok for AllowN, val for Limit and Size), the local variables diffSize
\* of advance and count of AllowN, the windows after advance (dec) and the current window after
\* the decision (add), and what its Sync did: sent a request, got a
\* response (resp).
NoCall == [op |-> "none", now |-> 0, n |-> 0, ok |-> FALSE, val |-> 0,
           diff |-> 0, count |-> 0, dec |-> [curr |-> NoWin, prev |-> NoWin],
           add |-> NoWin, sent |-> FALSE, got |-> FALSE, resp |-> NoResp,
           steps |-> <<>>]

\* One step of a Sync call, with the in-progress flag it finds.
Step(op, h) == [op |-> op, inProgress |-> h.inProgress]

\* A goroutine that has not called yet.  w is the value AddCount is about
\* to store in the current window.
NoThread == [pc |-> "idle", op |-> "none", now |-> 0, n |-> 0, ok |-> FALSE,
             val |-> 0, w |-> NoWin]

Threads == 1..MaxThreads

\* The history of a limiter in its current window: adm, it has admitted
\* events; own, the successful rounds it has completed since the last
\* admission of any limiter; settled, those it has completed since the
\* last admission of any limiter and the last Add to the Datastore; sums,
\* the events it has admitted so far, by the start of the window that
\* admitted them.
NoRounds == [adm |-> FALSE, own |-> 0, settled |-> 0, sums |-> <<>>]

\* The history after a step of limiter l in which it admitted events
\* (admitted), rolled over (rolled), a Datastore total grew (added) or a
\* successful response for its current window was handled (handled).
Tally(r, l, admitted, rolled, added, handled) ==
    IF Cardinality(DOMAIN r) < 2 THEN r
    ELSE [k \in DOMAIN r |->
            LET own == IF admitted \/ (k = l /\ rolled) THEN 0 ELSE r[k].own
                settled == IF admitted \/ added \/ (k = l /\ rolled)
                           THEN 0 ELSE r[k].settled
                more == IF k = l /\ handled THEN 1 ELSE 0
            IN [adm |-> IF k # l THEN r[k].adm
                        ELSE IF rolled THEN admitted
                        ELSE r[k].adm \/ admitted,
                own |-> IF own + more > MaxRounds THEN MaxRounds ELSE own + more,
                settled |-> IF settled + more > MaxRounds THEN MaxRounds
                            ELSE settled + more,
                sums |-> r[k].sums]]

\* The history after limiter l has decided the call c on the window that
\* starts at start: the events it admits are added to its sum for that
\* start.
Record(r, l, start, c) ==
    IF Cardinality(DOMAIN r) < 2 \/ ~c.ok \/ c.n = 0 THEN r
    ELSE [r EXCEPT ![l].sums =
             [k \in DOMAIN @ \cup {start} |->
                 IF k = start
                 THEN (IF k \in DOMAIN @ THEN @[k] ELSE 0) + c.n
                 ELSE @[k]]]

Configs == [size : Sizes, limit : Limits, kind : Kinds, interval : Intervals]

\* NewLimiter(size, limit, newWindow) for every limiter of c, where
\* newWindow is NewLocalWindow or NewSyncWindow(key, syncer) with a
\* Blocking or a Non-blocking synchronizer.  NewSyncWindow starts the
\* synchronizer: the goroutine of a Non-blocking one has been spawned and
\* has not run yet.
NewLimiter(c) ==
    /\ cfg = c
    /\ limit = [l \in DOMAIN c |-> c[l].limit]
    /\ curr = [l \in DOMAIN c |-> NoWin]
    /\ prev = [l \in DOMAIN c |-> NoWin]
    /\ mu = [l \in DOMAIN c |-> FALSE]
    /\ call = [l \in DOMAIN c |-> NoCall]
    /\ helper = [l \in DOMAIN c |-> [inProgress |-> FALSE, lastSynced |-> ZeroTime]]
    /\ worker = [l \in DOMAIN c |->
                    [pc |-> IF c[l].kind = "nonblocking" THEN "spawned" ELSE "none",
                     req |-> NoReq, resp |-> NoResp]]
    /\ stopC = [l \in DOMAIN c |-> FALSE]
    /\ exitC = [l \in DOMAIN c |-> FALSE]
    /\ stopper = [l \in DOMAIN c |-> [calls |-> 0, pc |-> "idle"]]
    /\ store = <<>>
    /\ clock = 0
    /\ threads = [t \in Threads |-> NoThread]
    /\ rounds = [l \in DOMAIN c |-> NoRounds]

Init == \E c \in [{1} -> Configs] : NewLimiter(c)

\* ------------------------------------------------------------------------
\* Windows (window.go)
\* ------------------------------------------------------------------------

\* AddCount of a SyncWindow that forgets the pending changes.
AddCount_NoChanges(kind, w, n) == [w EXCEPT !.count = @ + n]

\* An AddCount of a SyncWindow that records the changes without calling
\* LocalWindow.AddCount.
AddCount_NoCount(kind, w, n) ==
    IF kind = "local"
    THEN [w EXCEPT !.count = @ + n]
    ELSE [w EXCEPT !.changes = @ + n]

\* LocalWindow.AddCount, SyncWindow.AddCount
AddCount(kind, w, n) ==
    IF kind = "local"
    THEN [w EXCEPT !.count = @ + n]
    ELSE [w EXCEPT !.changes = @ + n, !.count = @ + n]

\* LocalWindow.Reset, SyncWindow.Reset
\* A Reset of a SyncWindow that keeps the changes of the old window.
Reset_KeepsChanges(kind, w, s, c) == [w EXCEPT !.start = s, !.count = c]

Reset(kind, w, s, c) ==
    IF kind = "local"
    THEN [w EXCEPT !.start = s, !.count = c]
    ELSE [w EXCEPT !.changes = 0, !.start = s, !.count = c]

\* SyncWindow.makeSyncRequest
makeSyncRequest(w) ==
    [start |-> w.start, count |-> w.count, changes |-> w.changes]

\* A handler that applies every OK response, whatever window it is for.
handleSyncResponse_AnyStart(w, resp) ==
    IF resp.ok
    THEN [w EXCEPT !.count = @ + resp.other, !.changes = @ - resp.changes]
    ELSE w

\* A handler that keeps the delivered changes pending.
handleSyncResponse_KeepsChanges(w, resp) ==
    IF resp.ok /\ resp.start = w.start
    THEN [w EXCEPT !.count = @ + resp.other]
    ELSE w

\* A handler that clears the pending changes instead of subtracting the
\* delivered ones.
handleSyncResponse_ClearsChanges(w, resp) ==
    IF resp.ok /\ resp.start = w.start
    THEN [w EXCEPT !.count = @ + resp.other, !.changes = 0]
    ELSE w

\* SyncWindow.handleSyncResponse
handleSyncResponse(w, resp) ==
    IF resp.ok /\ resp.start = w.start
    THEN [w EXCEPT !.count = @ + resp.other, !.changes = @ - resp.changes]
    ELSE w

\* ------------------------------------------------------------------------
\* Datastore (Datastore interface; MemDatastore of the tests)
\* ------------------------------------------------------------------------

StoreGet(st, start) == IF start \in DOMAIN st THEN st[start] ELSE 0

StoreAdd(st, start, delta) ==
    [k \in DOMAIN st \cup {start} |-> IF k = start THEN StoreGet(st, k) + delta
                                      ELSE st[k]]

\* ------------------------------------------------------------------------
\* syncHelper (synchronizer.go)
\* ------------------------------------------------------------------------

\* A begin that records the instant only.
begin_NoFlag(h, now) == [h EXCEPT !.lastSynced = now]

\* A begin that does not record when the exchange was started.
begin_KeepsLastSynced(h, now) == [h EXCEPT !.inProgress = TRUE]

begin(h, now) == [h EXCEPT !.inProgress = TRUE, !.lastSynced = now]

\* An end that leaves the exchange marked as in progress.
end_StillInProgress(h) == h

end(h) == [h EXCEPT !.inProgress = FALSE]

\* A test that is satisfied whenever no exchange is in progress.
isTimeUp_NoInterval(h, now, interval) == ~h.inProgress

\* A test that needs more than the interval to have passed.
isTimeUp_After(h, now, interval) ==
    /\ ~h.inProgress
    /\ (h.lastSynced = ZeroTime \/ now - h.lastSynced > interval)

isTimeUp(h, now, interval) ==
    /\ ~h.inProgress
    /\ (h.lastSynced = ZeroTime \/ now - h.lastSynced >= interval)

\* A sync that adds the whole count of the window to the Datastore.
sync_AddsCount(st, req, fails) ==
    LET call1 == IF req.changes > 0
                 THEN [op |-> "Add", start |-> req.start, delta |-> req.count]
                 ELSE [op |-> "Get", start |-> req.start, delta |-> 0]
    IN IF fails
       THEN [resp |-> NoResp, store |-> st, calls |-> <<call1>>]
       ELSE LET st2 == IF req.changes > 0
                       THEN StoreAdd(st, req.start, req.count)
                       ELSE st
                newCount == StoreGet(st2, req.start)
            IN [resp |-> [ok |-> TRUE, start |-> req.start,
                          changes |-> req.changes,
                          other |-> newCount - req.count],
                store |-> st2, calls |-> <<call1>>]

\* A sync that leaves out what the other limiters have added.
sync_NoOther(st, req, fails) ==
    IF fails
    THEN [resp |-> NoResp, store |-> st]
    ELSE LET st2 == IF req.changes > 0
                    THEN StoreAdd(st, req.start, req.changes)
                    ELSE st
         IN [resp |-> [ok |-> TRUE, start |-> req.start,
                       changes |-> req.changes, other |-> 0],
             store |-> st2]

\* A sync that reads the total with Get after adding the changes.
sync_AddThenGet(st, req, fails) ==
    LET add == [op |-> "Add", start |-> req.start, delta |-> req.changes]
        get == [op |-> "Get", start |-> req.start, delta |-> 0]
    IN IF fails
       THEN [resp |-> NoResp, store |-> st, calls |-> <<get>>]
       ELSE LET st2 == IF req.changes > 0
                       THEN StoreAdd(st, req.start, req.changes)
                       ELSE st
                newCount == StoreGet(st2, req.start)
            IN [resp |-> [ok |-> TRUE, start |-> req.start,
                          changes |-> req.changes,
                          other |-> newCount - req.count],
                store |-> st2,
                calls |-> IF req.changes > 0 THEN <<add, get>> ELSE <<get>>]

\* syncHelper.sync: one exchange with the Datastore, which answers (fails
\* = FALSE) or returns an error and is left unchanged (fails = TRUE).
\* The result is the response, the Datastore afterwards and the calls
\* made on the Datastore.
sync(st, req, fails) ==
    LET call1 == IF req.changes > 0
                 THEN [op |-> "Add", start |-> req.start, delta |-> req.changes]
                 ELSE [op |-> "Get", start |-> req.start, delta |-> 0]
    IN IF fails
       THEN [resp |-> NoResp, store |-> st, calls |-> <<call1>>]
       ELSE LET st2 == IF req.changes > 0
                       THEN StoreAdd(st, req.start, req.changes)
                       ELSE st
                newCount == StoreGet(st2, req.start)
            IN [resp |-> [ok |-> TRUE, start |-> req.start,
                          changes |-> req.changes,
                          other |-> newCount - req.count],
                store |-> st2, calls |-> <<call1>>]

\* ------------------------------------------------------------------------
\* Limiter (the second file of slidingwindow_examples_test.go)
\* ------------------------------------------------------------------------

\* The previous window is made by NewLocalWindow whatever the caller's
\* window factory makes; its stop function is dropped.
PrevKind == "local"

\* advance that leaves the previous window where the current one was.
advance_PrevAtOldStart(kind, size, c, p, now) ==
    LET newCurrStart == Truncate(now, size)
        diffSize == Quot(newCurrStart - c.start, size)
        newPrevCount == IF diffSize = 1 THEN c.count ELSE 0
    IN IF diffSize >= 1
       THEN [prev |-> Reset("local", p, c.start, newPrevCount),
             curr |-> Reset(kind, c, newCurrStart, 0),
             diffSize |-> diffSize]
       ELSE [prev |-> p, curr |-> c, diffSize |-> diffSize]

\* advance that never inherits the vacated window's count.
advance_NoInherit(kind, size, c, p, now) ==
    LET newCurrStart == Truncate(now, size)
        diffSize == Quot(newCurrStart - c.start, size)
    IN IF diffSize >= 1
       THEN [prev |-> Reset("local", p, newCurrStart - size, 0),
             curr |-> Reset(kind, c, newCurrStart, 0),
             diffSize |-> diffSize]
       ELSE [prev |-> p, curr |-> c, diffSize |-> diffSize]

\* advance that inherits the vacated window's count however long the
\* limiter has been idle.
advance_AlwaysInherit(kind, size, c, p, now) ==
    LET newCurrStart == Truncate(now, size)
        diffSize == Quot(newCurrStart - c.start, size)
    IN IF diffSize >= 1
       THEN [prev |-> Reset("local", p, newCurrStart - size, c.count),
             curr |-> Reset(kind, c, newCurrStart, 0),
             diffSize |-> diffSize]
       ELSE [prev |-> p, curr |-> c, diffSize |-> diffSize]

\* A rollover that starts the current window where the previous one starts.
advance_CurrAtPrevStart(kind, size, c, p, now) ==
    LET newCurrStart == Truncate(now, size)
        diffSize == Quot(newCurrStart - c.start, size)
        newPrevCount == IF diffSize = 1 THEN c.count ELSE 0
    IN IF diffSize >= 1
       THEN [prev |-> Reset(PrevKind, p, newCurrStart - size, newPrevCount),
             curr |-> Reset(kind, c, newCurrStart - size, 0),
             diffSize |-> diffSize]
       ELSE [prev |-> p, curr |-> c, diffSize |-> diffSize]

\* A rollover to whatever window now lies in, an earlier one too.
advance_RollsBack(kind, size, c, p, now) ==
    LET newCurrStart == Truncate(now, size)
        diffSize == Quot(newCurrStart - c.start, size)
        newPrevCount == IF diffSize = 1 THEN c.count ELSE 0
    IN IF diffSize # 0
       THEN [prev |-> Reset(PrevKind, p, newCurrStart - size, newPrevCount),
             curr |-> Reset(kind, c, newCurrStart, 0),
             diffSize |-> diffSize]
       ELSE [prev |-> p, curr |-> c, diffSize |-> diffSize]

\* Limiter.advance: the current and previous windows afterwards.
advance(kind, size, c, p, now) ==
    LET newCurrStart == Truncate(now, size)
        diffSize == Quot(newCurrStart - c.start, size)
        newPrevCount == IF diffSize = 1 THEN c.count ELSE 0
    IN IF diffSize >= 1
       THEN [prev |-> Reset(PrevKind, p, newCurrStart - size, newPrevCount),
             curr |-> Reset(kind, c, newCurrStart, 0),
             diffSize |-> diffSize]
       ELSE [prev |-> p, curr |-> c, diffSize |-> diffSize]

\* An estimate that counts the previous window in full.
ApproxCount_Unweighted(size, c, p, now) == p.count + c.count

\* An estimate that weights the previous window by the elapsed part of
\* the current one.
ApproxCount_ElapsedWeight(size, c, p, now) ==
    LET elapsed == now - c.start
    IN WeightedCount(elapsed, size, p.count) + c.count

\* The local variable count of AllowN.
ApproxCount(size, c, p, now) ==
    LET elapsed == now - c.start
    IN WeightedCount(size - elapsed, size, p.count) + c.count

\* A decision that rejects only a request that exceeds the limit by one.
Admit_OffByEq(count, n, lim) == ~(count + n = lim + 1)

\* A decision that compares only the request with the limit.
Admit_IgnoresCount(count, n, lim) == ~(n > lim)

\* The decision of AllowN.
Admit(count, n, lim) == ~(count + n > lim)

\* A decision that counts the events of a rejected request.
Decide_AddOnReject(kind, w, ok, n) == AddCount(kind, w, n)

\* What the decision does to the current window: AddCount(n) when the
\* events are admitted, nothing when they are rejected.
Decide(kind, w, ok, n) == IF ok THEN AddCount(kind, w, n) ELSE w

Panicked == \E l \in DOMAIN cfg : stopper[l].pc = "panic"

\* A lock that is also held for the duration of an exchange.
CanLock_WaitsForSync(l) == ~mu[l] /\ ~helper[l].inProgress

\* Lock acquisition.
CanLock(l) == ~mu[l]

\* A Sync that marks the exchange as begun although the hand-off was
\* skipped.
SyncFirst_MarksSkipped(l, now, w, c) ==
    LET k == cfg[l].kind
        due == isTimeUp(helper[l], now, cfg[l].interval)
        adm == c.ok /\ c.n > 0
    IN CASE k = "local" ->
              /\ curr' = [curr EXCEPT ![l] = w]
              /\ call' = [call EXCEPT ![l] = c]
              /\ rounds' = Tally(Record(rounds, l, w.start, c), l, adm, c.diff >= 1, FALSE, FALSE)
              /\ UNCHANGED <<helper, worker, store>>
         [] k = "blocking" /\ ~due ->
              /\ curr' = [curr EXCEPT ![l] = w]
              /\ call' = [call EXCEPT ![l] = c]
              /\ rounds' = Tally(Record(rounds, l, w.start, c), l, adm, c.diff >= 1, FALSE, FALSE)
              /\ UNCHANGED <<helper, worker, store>>
         [] k = "blocking" /\ due ->
              \E fails \in BOOLEAN :
                LET x == sync(store, makeSyncRequest(w), fails)
                IN /\ store' = x.store
                   /\ helper' = [helper EXCEPT ![l] = end(begin(@, now))]
                   /\ curr' = [curr EXCEPT ![l] = handleSyncResponse(w, x.resp)]
                   /\ call' = [call EXCEPT ![l] =
                                 [c EXCEPT !.sent = TRUE, !.got = TRUE,
                                           !.resp = x.resp,
                                           !.steps =
                                              <<Step("makeRequest", helper[l]),
                                                Step("sync", helper[l]),
                                                Step("begin", helper[l]),
                                                Step("handleResponse",
                                                     begin(helper[l], now)),
                                                Step("end",
                                                     begin(helper[l], now))>>]]
                   /\ rounds' = Tally(Record(rounds, l, w.start, c), l, adm, c.diff >= 1,
                                      x.store # store, x.resp.ok)
                   /\ UNCHANGED worker
         [] k = "nonblocking" /\ due /\ worker[l].pc = "recv" /\ ~stopC[l] ->
              /\ worker' = [worker EXCEPT ![l] =
                              [pc |-> "call", req |-> makeSyncRequest(w),
                               resp |-> NoResp]]
              /\ helper' = [helper EXCEPT ![l] = begin(@, now)]
              /\ curr' = [curr EXCEPT ![l] = w]
              /\ call' = [call EXCEPT ![l] =
                            [c EXCEPT !.sent = TRUE,
                                      !.steps = <<Step("makeRequest", helper[l]),
                                                  Step("send", helper[l]),
                                                  Step("begin", helper[l])>>]]
              /\ rounds' = Tally(Record(rounds, l, w.start, c), l, adm, c.diff >= 1, FALSE, FALSE)
              /\ UNCHANGED store
         [] OTHER ->
              /\ curr' = [curr EXCEPT ![l] = w]
              /\ call' = [call EXCEPT ![l] = c]
              /\ helper' = [helper EXCEPT ![l] =
                               IF due THEN begin(@, now) ELSE @]
              /\ rounds' = Tally(Record(rounds, l, w.start, c), l, adm, c.diff >= 1, FALSE, FALSE)
              /\ UNCHANGED <<worker, store>>

\* The deferred curr.Sync(now) up to and including the hand-off of a
\* request.  A LocalWindow's Sync does nothing; the Blocking synchronizer
\* does the whole exchange here; the Non-blocking one sends on reqC if
\* syncLoop is waiting to receive, and gives up otherwise.
SyncFirst(l, now, w, c) ==
    LET k == cfg[l].kind
        due == isTimeUp(helper[l], now, cfg[l].interval)
        adm == c.ok /\ c.n > 0
    IN CASE k = "local" ->
              /\ curr' = [curr EXCEPT ![l] = w]
              /\ call' = [call EXCEPT ![l] = c]
              /\ rounds' = Tally(Record(rounds, l, w.start, c), l, adm, c.diff >= 1, FALSE, FALSE)
              /\ UNCHANGED <<helper, worker, store>>
         [] k = "blocking" /\ ~due ->
              /\ curr' = [curr EXCEPT ![l] = w]
              /\ call' = [call EXCEPT ![l] = c]
              /\ rounds' = Tally(Record(rounds, l, w.start, c), l, adm, c.diff >= 1, FALSE, FALSE)
              /\ UNCHANGED <<helper, worker, store>>
         [] k = "blocking" /\ due ->
              \E fails \in BOOLEAN :
                LET x == sync(store, makeSyncRequest(w), fails)
                IN /\ store' = x.store
                   /\ helper' = [helper EXCEPT ![l] = end(begin(@, now))]
                   /\ curr' = [curr EXCEPT ![l] = handleSyncResponse(w, x.resp)]
                   /\ call' = [call EXCEPT ![l] =
                                 [c EXCEPT !.sent = TRUE, !.got = TRUE,
                                           !.resp = x.resp,
                                           !.steps =
                                              <<Step("makeRequest", helper[l]),
                                                Step("sync", helper[l]),
                                                Step("begin", helper[l]),
                                                Step("handleResponse",
                                                     begin(helper[l], now)),
                                                Step("end",
                                                     begin(helper[l], now))>>]]
                   /\ rounds' = Tally(Record(rounds, l, w.start, c), l, adm, c.diff >= 1,
                                      x.store # store, x.resp.ok)
                   /\ UNCHANGED worker
         [] k = "nonblocking" /\ due /\ worker[l].pc = "recv" /\ ~stopC[l] ->
              /\ worker' = [worker EXCEPT ![l] =
                              [pc |-> "call", req |-> makeSyncRequest(w),
                               resp |-> NoResp]]
              /\ helper' = [helper EXCEPT ![l] = begin(@, now)]
              /\ curr' = [curr EXCEPT ![l] = w]
              /\ call' = [call EXCEPT ![l] =
                            [c EXCEPT !.sent = TRUE,
                                      !.steps = <<Step("makeRequest", helper[l]),
                                                  Step("send", helper[l]),
                                                  Step("begin", helper[l])>>]]
              /\ rounds' = Tally(Record(rounds, l, w.start, c), l, adm, c.diff >= 1, FALSE, FALSE)
              /\ UNCHANGED store
         [] OTHER ->
              /\ curr' = [curr EXCEPT ![l] = w]
              /\ call' = [call EXCEPT ![l] = c]
              /\ rounds' = Tally(Record(rounds, l, w.start, c), l, adm, c.diff >= 1, FALSE, FALSE)
              /\ UNCHANGED <<helper, worker, store>>

\* A second select without a default case: it waits for the response
\* of the exchange in progress.
SyncSecond_Waits(l) ==
    IF cfg[l].kind = "nonblocking" /\ helper[l].inProgress
    THEN /\ worker[l].pc = "send"
         /\ ~stopC[l]
         /\ curr' = [curr EXCEPT ![l] = handleSyncResponse(@, worker[l].resp)]
         /\ helper' = [helper EXCEPT ![l] = end(@)]
         /\ worker' = [worker EXCEPT ![l] =
                         [pc |-> "recv", req |-> NoReq, resp |-> NoResp]]
         /\ call' = [call EXCEPT ![l].got = TRUE, ![l].resp = worker[l].resp,
                                 ![l].steps = @ \o <<Step("receive", helper[l]),
                                                     Step("handleResponse", helper[l]),
                                                     Step("end", helper[l])>>]
         /\ rounds' = Tally(rounds, l, FALSE, FALSE, FALSE,
                            worker[l].resp.ok
                            /\ worker[l].resp.start = curr[l].start)
    ELSE UNCHANGED <<curr, helper, worker, call, rounds>>

\* A second select that is skipped by the call that handed the request off.
SyncSecond_SkipsAfterSend(l) ==
    IF /\ cfg[l].kind = "nonblocking"
       /\ helper[l].inProgress
       /\ worker[l].pc = "send"
       /\ ~stopC[l]
       /\ ~call[l].sent
    THEN /\ curr' = [curr EXCEPT ![l] = handleSyncResponse(@, worker[l].resp)]
         /\ helper' = [helper EXCEPT ![l] = end(@)]
         /\ worker' = [worker EXCEPT ![l] =
                         [pc |-> "recv", req |-> NoReq, resp |-> NoResp]]
         /\ call' = [call EXCEPT ![l].got = TRUE, ![l].resp = worker[l].resp,
                                 ![l].steps = @ \o <<Step("receive", helper[l]),
                                                     Step("handleResponse", helper[l]),
                                                     Step("end", helper[l])>>]
         /\ rounds' = Tally(rounds, l, FALSE, FALSE, FALSE,
                            worker[l].resp.ok
                            /\ worker[l].resp.start = curr[l].start)
    ELSE UNCHANGED <<curr, helper, worker, call, rounds>>

\* The second select of NonblockingSynchronizer.Sync: if an exchange is in
\* progress and syncLoop is waiting to deliver its response, take it,
\* end the exchange and hand the response to the window; otherwise go on.
SyncSecond(l) ==
    IF /\ cfg[l].kind = "nonblocking"
       /\ helper[l].inProgress
       /\ worker[l].pc = "send"
       /\ ~stopC[l]
    THEN /\ curr' = [curr EXCEPT ![l] = handleSyncResponse(@, worker[l].resp)]
         /\ helper' = [helper EXCEPT ![l] = end(@)]
         /\ worker' = [worker EXCEPT ![l] =
                         [pc |-> "recv", req |-> NoReq, resp |-> NoResp]]
         /\ call' = [call EXCEPT ![l].got = TRUE, ![l].resp = worker[l].resp,
                                 ![l].steps = @ \o <<Step("receive", helper[l]),
                                                     Step("handleResponse", helper[l]),
                                                     Step("end", helper[l])>>]
         /\ rounds' = Tally(rounds, l, FALSE, FALSE, FALSE,
                            worker[l].resp.ok
                            /\ worker[l].resp.start = curr[l].start)
    ELSE UNCHANGED <<curr, helper, worker, call, rounds>>

\* Limiter.AllowN(now, n) from the lock to the first select of the
\* deferred Sync: advance, interpolate, decide, AddCount, Sync.  Each
\* intermediate value is computed once (a: the windows after advance,
\* count: the interpolated count, ok: the decision, w: the current
\* window after the decision, c: the record of the call).
AllowN(l, now, n) ==
    /\ ~Panicked
    /\ CanLock(l)
    /\ \E a \in {advance(cfg[l].kind, cfg[l].size, curr[l], prev[l], now)} :
       \E count \in {ApproxCount(cfg[l].size, a.curr, a.prev, now)} :
       \E ok \in {Admit(count, n, limit[l])} :
       \E w \in {Decide(cfg[l].kind, a.curr, ok, n)} :
       \E c \in {[NoCall EXCEPT !.op = "AllowN", !.now = now, !.n = n,
                               !.ok = ok, !.diff = a.diffSize,
                               !.count = count,
                               !.dec = [curr |-> a.curr, prev |-> a.prev],
                               !.add = w]} :
          /\ prev' = [prev EXCEPT ![l] = a.prev]
          /\ mu' = [mu EXCEPT ![l] = TRUE]
          /\ SyncFirst(l, now, w, c)
    /\ clock' = IF now > clock THEN now ELSE clock
    /\ UNCHANGED <<cfg, limit, stopC, exitC, stopper, threads>>

\* The rest of AllowN: the second select of a Non-blocking Sync, which
\* takes a response if syncLoop is waiting to deliver one, then the
\* deferred Unlock and the return.
AllowNReturn(l) ==
    /\ ~Panicked
    /\ mu[l]
    /\ call[l].op = "AllowN"
    /\ SyncSecond(l)
    /\ mu' = [mu EXCEPT ![l] = FALSE]
    /\ UNCHANGED <<cfg, limit, prev, stopC, exitC, stopper, store, clock, threads>>

\* A call of AllowN has made its decision (it is in progress or was the
\* last call on the limiter).
Decided(l) == call[l].op = "AllowN"

\* A call of AllowN has returned and no other call has been made since.
Returned(l) == call[l].op = "AllowN" /\ ~mu[l]

\* A step in which a call of AllowN takes the lock.
CallStart(l) == ~mu[l] /\ mu'[l] /\ call'[l].op = "AllowN"

\* A step in which the Sync of a call hands a response to the window:
\* in a Blocking Sync within the step that takes the lock, in a
\* Non-blocking Sync within the step that returns.
HandledBlocking(l) == CallStart(l) /\ call'[l].got
HandledNonblocking(l) == mu[l] /\ ~mu'[l] /\ ~call[l].got /\ call'[l].got

\* The request of limiter l's Non-blocking synchronizer is outstanding:
\* syncLoop has received it and Sync has not received the response.
Outstanding(l) == worker[l].pc \in {"call", "send"}

\* Limiter.SetLimit(newLimit)
SetLimit(l, newLimit) ==
    /\ ~Panicked
    /\ CanLock(l)
    /\ limit' = [limit EXCEPT ![l] = newLimit]
    /\ call' = [call EXCEPT ![l] = [NoCall EXCEPT !.op = "SetLimit", !.n = newLimit]]
    /\ UNCHANGED <<cfg, curr, prev, mu, helper, worker, stopC, exitC, stopper, store, clock, threads, rounds>>

\* A Limit() that returns the limit given at construction.
Limit_AtConstruction(l) ==
    /\ ~Panicked
    /\ CanLock(l)
    /\ call' = [call EXCEPT ![l] = [NoCall EXCEPT !.op = "Limit", !.val = cfg[l].limit]]
    /\ UNCHANGED <<cfg, limit, curr, prev, mu, helper, worker, stopC, exitC, stopper, store, clock, threads, rounds>>

\* Limiter.Limit()
Limit(l) ==
    /\ ~Panicked
    /\ CanLock(l)
    /\ call' = [call EXCEPT ![l] = [NoCall EXCEPT !.op = "Limit", !.val = limit[l]]]
    /\ UNCHANGED <<cfg, limit, curr, prev, mu, helper, worker, stopC, exitC, stopper, store, clock, threads, rounds>>

\* Limiter.Size(), which takes no lock.
Size(l) ==
    /\ ~Panicked
    /\ ~mu[l]
    /\ call' = [call EXCEPT ![l] = [NoCall EXCEPT !.op = "Size", !.val = cfg[l].size]]
    /\ UNCHANGED <<cfg, limit, curr, prev, mu, helper, worker, stopC, exitC, stopper, store, clock, threads, rounds>>

\* ------------------------------------------------------------------------
\* NonblockingSynchronizer.syncLoop, the background goroutine
\* ------------------------------------------------------------------------

\* The goroutine is scheduled for the first time and reaches the select.
syncLoopStart(l) ==
    /\ ~Panicked
    /\ worker[l].pc = "spawned"
    /\ worker' = [worker EXCEPT ![l].pc = "recv"]
    /\ UNCHANGED <<cfg, limit, curr, prev, mu, call, helper, stopC, exitC, stopper, store, clock, threads, rounds>>

\* A loop that hands the response to the window and ends the exchange
\* itself.
syncLoopExchange_HandlesResponse(l) ==
    /\ ~Panicked
    /\ worker[l].pc = "call"
    /\ \E fails \in BOOLEAN :
         LET x == sync(store, worker[l].req, fails)
         IN /\ store' = x.store
            /\ worker' = [worker EXCEPT ![l].pc = "send", ![l].resp = x.resp]
            /\ curr' = [curr EXCEPT ![l] = handleSyncResponse(@, x.resp)]
            /\ helper' = [helper EXCEPT ![l] = end(@)]
            /\ rounds' = Tally(rounds, l, FALSE, FALSE, x.store # store, FALSE)
    /\ UNCHANGED <<cfg, limit, prev, mu, call, stopC, exitC, stopper, clock, threads>>

\* A loop that goes back to wait for a request when the exchange failed.
syncLoopExchange_DropsFailed(l) ==
    /\ ~Panicked
    /\ worker[l].pc = "call"
    /\ \E fails \in BOOLEAN :
         LET x == sync(store, worker[l].req, fails)
         IN /\ store' = x.store
            /\ worker' = [worker EXCEPT ![l] =
                            IF fails
                            THEN [pc |-> "recv", req |-> NoReq, resp |-> NoResp]
                            ELSE [@ EXCEPT !.pc = "send", !.resp = x.resp]]
            /\ rounds' = Tally(rounds, l, FALSE, FALSE, x.store # store, FALSE)
    /\ UNCHANGED <<cfg, limit, curr, prev, mu, call, helper, stopC, exitC, stopper, clock, threads>>

\* resp, err := s.helper.sync(req), then on to the select that delivers resp.
syncLoopExchange(l) ==
    /\ ~Panicked
    /\ worker[l].pc = "call"
    /\ \E fails \in BOOLEAN :
         LET x == sync(store, worker[l].req, fails)
         IN /\ store' = x.store
            /\ worker' = [worker EXCEPT ![l].pc = "send", ![l].resp = x.resp]
            /\ rounds' = Tally(rounds, l, FALSE, FALSE, x.store # store, FALSE)
    /\ UNCHANGED <<cfg, limit, curr, prev, mu, call, helper, stopC, exitC, stopper, clock, threads>>

\* A loop that watches stopC only while it waits for a request.
syncLoopExit_OnlyIdle(l) ==
    /\ ~Panicked
    /\ worker[l].pc = "recv"
    /\ stopC[l]
    /\ worker' = [worker EXCEPT ![l].pc = "exited"]
    /\ exitC' = [exitC EXCEPT ![l] = TRUE]
    /\ UNCHANGED <<cfg, limit, curr, prev, mu, call, helper, stopC, stopper, store, clock, threads, rounds>>

\* case <-s.stopC in either select: goto exit, close(s.exitC).
syncLoopExit(l) ==
    /\ ~Panicked
    /\ worker[l].pc \in {"recv", "send"}
    /\ stopC[l]
    /\ worker' = [worker EXCEPT ![l].pc = "exited"]
    /\ exitC' = [exitC EXCEPT ![l] = TRUE]
    /\ UNCHANGED <<cfg, limit, curr, prev, mu, call, helper, stopC, stopper, store, clock, threads, rounds>>

\* ------------------------------------------------------------------------
\* The StopFunc NewLimiter returns: the current window's
\* ------------------------------------------------------------------------

\* A stop function that does nothing for any window.
Stop_Nothing(l) ==
    /\ ~Panicked
    /\ stopper[l].pc \in {"idle", "returned"}
    /\ stopper[l].calls < MaxStops
    /\ stopper' = [stopper EXCEPT ![l] = [calls |-> @.calls + 1, pc |-> "returned"]]
    /\ UNCHANGED <<cfg, limit, curr, prev, mu, call, helper, worker, stopC, exitC, store, clock, threads, rounds>>

\* A Stop that closes stopC once and returns at once when it is closed.
Stop_Idempotent(l) ==
    /\ ~Panicked
    /\ stopper[l].pc \in {"idle", "returned"}
    /\ stopper[l].calls < MaxStops
    /\ IF cfg[l].kind = "nonblocking" /\ ~stopC[l]
       THEN /\ stopper' = [stopper EXCEPT ![l] = [calls |-> @.calls + 1, pc |-> "wait"]]
            /\ stopC' = [stopC EXCEPT ![l] = TRUE]
       ELSE /\ stopper' = [stopper EXCEPT ![l] = [calls |-> @.calls + 1, pc |-> "returned"]]
            /\ UNCHANGED stopC
    /\ UNCHANGED <<cfg, limit, curr, prev, mu, call, helper, worker, exitC, store, clock, threads, rounds>>

\* A call of the stop function.  For a LocalWindow it is func() {}, for a
\* Blocking synchronizer Stop() {}; the Non-blocking Stop closes stopC,
\* which panics if stopC is closed already, and then waits on exitC.
Stop(l) ==
    /\ ~Panicked
    /\ stopper[l].pc \in {"idle", "returned"}
    /\ stopper[l].calls < MaxStops
    /\ IF cfg[l].kind = "nonblocking"
       THEN IF stopC[l]
            THEN /\ stopper' = [stopper EXCEPT ![l] = [calls |-> @.calls + 1, pc |-> "panic"]]
                 /\ UNCHANGED stopC
            ELSE /\ stopper' = [stopper EXCEPT ![l] = [calls |-> @.calls + 1, pc |-> "wait"]]
                 /\ stopC' = [stopC EXCEPT ![l] = TRUE]
       ELSE /\ stopper' = [stopper EXCEPT ![l] = [calls |-> @.calls + 1, pc |-> "returned"]]
            /\ UNCHANGED stopC
    /\ UNCHANGED <<cfg, limit, curr, prev, mu, call, helper, worker, exitC, store, clock, threads, rounds>>

\* A Stop that returns without waiting for exitC.
StopReturn_NoWait(l) ==
    /\ ~Panicked
    /\ stopper[l].pc = "wait"
    /\ stopper' = [stopper EXCEPT ![l].pc = "returned"]
    /\ UNCHANGED <<cfg, limit, curr, prev, mu, call, helper, worker, stopC, exitC, store, clock, threads, rounds>>

\* <-s.exitC: Stop returns once syncLoop has closed exitC.
StopReturn(l) ==
    /\ ~Panicked
    /\ stopper[l].pc = "wait"
    /\ exitC[l]
    /\ stopper' = [stopper EXCEPT ![l].pc = "returned"]
    /\ UNCHANGED <<cfg, limit, curr, prev, mu, call, helper, worker, stopC, exitC, store, clock, threads, rounds>>

\* ------------------------------------------------------------------------
\* Other instances sharing the Datastore
\* ------------------------------------------------------------------------

\* A limiter of another process adds delta to the total of the window
\* that starts at start (Datastore.Add).
OtherAdd(start, delta) ==
    /\ ~Panicked
    /\ delta > 0
    /\ StoreGet(store, start) < MaxOther
    /\ store' = StoreAdd(store, start, delta)
    /\ rounds' = Tally(rounds, 0, FALSE, FALSE, TRUE, FALSE)
    /\ UNCHANGED <<cfg, limit, curr, prev, mu, call, helper, worker, stopC, exitC, stopper, clock, threads>>

\* ------------------------------------------------------------------------
\* Specification: one limiter with any kind of window, called with
\* instants that do not decrease (callers pass time.Now())
\* ------------------------------------------------------------------------

Next ==
    \E l \in DOMAIN cfg :
        \/ \E now \in Times, n \in Ns : now >= clock /\ AllowN(l, now, n)
        \/ AllowNReturn(l)
        \/ syncLoopStart(l)
        \/ syncLoopExchange(l)
        \/ OtherAdd(curr[l].start, 1)

Spec == Init /\ [][Next]_vars

\* ------------------------------------------------------------------------
\* Specification: one Local limiter of one second and a hundred events
\* ------------------------------------------------------------------------

WideTimes == {0, 3, 10, 13}
WideNs == {38, 90}

InitWide ==
    NewLimiter([l \in {1} |-> [size |-> 10, limit |-> 100, kind |-> "local",
                               interval |-> 1]])

NextWide ==
    \/ \E now \in WideTimes, n \in WideNs : now >= clock /\ AllowN(1, now, n)
    \/ AllowNReturn(1)

SpecWide == InitWide /\ [][NextWide]_vars

\* ------------------------------------------------------------------------
\* Specification: one limiter whose window size, 700ms, does not divide
\* the time from Go's zero time to the Unix epoch, so that the instants
\* time.Truncate rounds to are not the multiples of the size in Unix time
\* ------------------------------------------------------------------------

GridSizes == {7}
GridTimes == {0, 8, 9, 12, 16, 30}

\* The instant t, in Unix time, is a multiple of d after Go's zero time.
OnGrid(t, d) == (t + ZeroToUnixMod(d)) % d = 0

InitGrid ==
    \E c \in [{1} -> [size : GridSizes, limit : Limits, kind : Kinds,
                       interval : Intervals]] : NewLimiter(c)

NextGrid ==
    \E l \in DOMAIN cfg :
        \/ \E now \in GridTimes, n \in Ns : now >= clock /\ AllowN(l, now, n)
        \/ AllowNReturn(l)
        \/ syncLoopStart(l)
        \/ syncLoopExchange(l)
        \/ OtherAdd(curr[l].start, 1)

SpecGrid == InitGrid /\ [][NextGrid]_vars

\* ------------------------------------------------------------------------
\* Specification: the scenario of TestLimiter_LocalWindow_AllowN, a Local
\* limiter of one second and ten events called at t0 + Offsets[i] with
\* Counts[i] events, for t0 on a window boundary
\* ------------------------------------------------------------------------

Offsets == <<0, 1, 2, 5, 10, 12, 15, 30>>
Counts == <<1, 2, 3, 5, 2, 5, 5, 10>>
Expected == <<TRUE, TRUE, TRUE, FALSE, TRUE, FALSE, TRUE, TRUE>>

ScenarioSize == Offsets[5] - Offsets[1]
ScenarioLimit == Counts[8]

\* The scenarios start a whole number of windows apart, far enough for
\* one to be over before the next starts.
ScenarioLength == Offsets[Len(Offsets)] + ScenarioSize
T0s == {k * ScenarioLength : k \in 0..MaxT0}

\* The start of the scenario an instant belongs to.
T0Of(t) == (t \div ScenarioLength) * ScenarioLength

InitScenario ==
    NewLimiter([l \in {1} |-> [size |-> ScenarioSize, limit |-> ScenarioLimit,
                               kind |-> "local", interval |-> 1]])

\* The i-th call of the scenario: the first at any t0 once nothing has
\* been called yet, the others when the one before has returned.
ScenarioCall(i) ==
    IF i = 1
    THEN /\ call[1].op = "none"
         /\ \E t0 \in T0s : AllowN(1, t0 + Offsets[1], Counts[1])
    ELSE /\ Returned(1)
         /\ call[1].now = T0Of(call[1].now) + Offsets[i - 1]
         /\ AllowN(1, T0Of(call[1].now) + Offsets[i], Counts[i])

NextScenario ==
    \/ \E i \in 1..Len(Offsets) : ScenarioCall(i)
    \/ AllowNReturn(1)

SpecScenario == InitScenario /\ [][NextScenario]_vars

\* ------------------------------------------------------------------------
\* Specification: one limiter with a Local or a Blocking window whose
\* limit is read and changed between calls of AllowN
\* ------------------------------------------------------------------------

InitLimit ==
    \E c \in [{1} -> Configs] : c[1].kind # "nonblocking" /\ NewLimiter(c)

NextLimit ==
    \E l \in DOMAIN cfg :
        \/ \E now \in Times, n \in Ns : now >= clock /\ AllowN(l, now, n)
        \/ AllowNReturn(l)
        \/ \E newLimit \in 1..MaxNewLimit : SetLimit(l, newLimit)
        \/ Limit(l)
        \/ Size(l)

SpecLimit == InitLimit /\ [][NextLimit]_vars

\* ------------------------------------------------------------------------
\* Specification: goroutines calling one limiter concurrently, each call
\* taken statement by statement
\* ------------------------------------------------------------------------

ConcTimes == {0, 2, 3}
ConcNs == {1, 2}
ConcLimits == {1, 3}

\* What a goroutine calls: AllowN(now, n), SetLimit(n) or Limit().
ConcCalls ==
    [op : {"AllowN"}, now : ConcTimes, n : ConcNs]
      \cup [op : {"SetLimit"}, now : {0}, n : ConcLimits]
      \cup [op : {"Limit"}, now : {0}, n : {0}]

\* The goroutines that hold the lock.
Holding == {t \in Threads : threads[t].pc \notin {"idle", "done"}}

\* lim.mu.Lock() without waiting for the lock to be free.
GoLock_NoWait(t, l, c) ==
    /\ ~Panicked
    /\ threads[t].pc = "idle"
    /\ mu' = [mu EXCEPT ![l] = TRUE]
    /\ threads' = [threads EXCEPT ![t] =
                      [NoThread EXCEPT !.pc = "locked", !.op = c.op,
                                       !.now = c.now, !.n = c.n]]
    /\ UNCHANGED <<cfg, limit, curr, prev, call, helper, worker, stopC, exitC,
                   stopper, store, clock, rounds>>

\* lim.mu.Lock() of AllowN, SetLimit and Limit.
GoLock(t, l, c) ==
    /\ ~Panicked
    /\ threads[t].pc = "idle"
    /\ CanLock(l)
    /\ mu' = [mu EXCEPT ![l] = TRUE]
    /\ threads' = [threads EXCEPT ![t] =
                      [NoThread EXCEPT !.pc = "locked", !.op = c.op,
                                       !.now = c.now, !.n = c.n]]
    /\ UNCHANGED <<cfg, limit, curr, prev, call, helper, worker, stopC, exitC,
                   stopper, store, clock, rounds>>

\* lim.advance(now)
GoAdvance(t, l) ==
    /\ ~Panicked
    /\ threads[t].pc = "locked" /\ threads[t].op = "AllowN"
    /\ \E a \in {advance(cfg[l].kind, cfg[l].size, curr[l], prev[l],
                          threads[t].now)} :
          /\ curr' = [curr EXCEPT ![l] = a.curr]
          /\ prev' = [prev EXCEPT ![l] = a.prev]
    /\ threads' = [threads EXCEPT ![t].pc = "advanced"]
    /\ UNCHANGED <<cfg, limit, mu, call, helper, worker, stopC, exitC, stopper,
                   store, clock, rounds>>

\* The interpolation, the comparison with the limit and the load of
\* AddCount's count += n.
GoDecide(t, l) ==
    /\ ~Panicked
    /\ threads[t].pc = "advanced"
    /\ \E count \in {ApproxCount(cfg[l].size, curr[l], prev[l], threads[t].now)} :
       \E ok \in {Admit(count, threads[t].n, limit[l])} :
          threads' = [threads EXCEPT ![t].pc = "decided", ![t].ok = ok,
                         ![t].val = count,
                         ![t].w = Decide(cfg[l].kind, curr[l], ok, threads[t].n)]
    /\ UNCHANGED <<cfg, limit, curr, prev, mu, call, helper, worker, stopC,
                   exitC, stopper, store, clock, rounds>>

\* An AllowN that returns false before the Sync is deferred.
GoSync_OnlyOnAdmit(t, l) ==
    /\ ~Panicked
    /\ threads[t].pc = "decided"
    /\ IF threads[t].ok
       THEN SyncFirst(l, threads[t].now, threads[t].w,
                      [NoCall EXCEPT !.op = "AllowN", !.now = threads[t].now,
                                     !.n = threads[t].n, !.ok = threads[t].ok,
                                     !.count = threads[t].val,
                                     !.dec = [curr |-> curr[l], prev |-> prev[l]],
                                     !.add = threads[t].w])
       ELSE /\ call' = [call EXCEPT ![l] =
                          [NoCall EXCEPT !.op = "AllowN", !.now = threads[t].now,
                                         !.n = threads[t].n, !.ok = FALSE,
                                         !.count = threads[t].val,
                                         !.dec = [curr |-> curr[l],
                                                  prev |-> prev[l]],
                                         !.add = threads[t].w]]
            /\ UNCHANGED <<curr, helper, worker, store, rounds>>
    /\ threads' = [threads EXCEPT ![t].pc = "synced"]
    /\ UNCHANGED <<cfg, limit, prev, mu, stopC, exitC, stopper, clock>>

\* The store of AddCount's count += n and the deferred Sync up to its
\* first select.
GoSync(t, l) ==
    /\ ~Panicked
    /\ threads[t].pc = "decided"
    /\ SyncFirst(l, threads[t].now, threads[t].w,
                 [NoCall EXCEPT !.op = "AllowN", !.now = threads[t].now,
                                !.n = threads[t].n, !.ok = threads[t].ok,
                                !.count = threads[t].val,
                                !.dec = [curr |-> curr[l], prev |-> prev[l]],
                                !.add = threads[t].w])
    /\ threads' = [threads EXCEPT ![t].pc = "synced"]
    /\ UNCHANGED <<cfg, limit, prev, mu, stopC, exitC, stopper, clock>>

\* lim.limit = newLimit
GoSetLimit(t, l) ==
    /\ ~Panicked
    /\ threads[t].pc = "locked" /\ threads[t].op = "SetLimit"
    /\ limit' = [limit EXCEPT ![l] = threads[t].n]
    /\ threads' = [threads EXCEPT ![t].pc = "written"]
    /\ UNCHANGED <<cfg, curr, prev, mu, call, helper, worker, stopC, exitC,
                   stopper, store, clock, rounds>>

\* return lim.limit
GoLimit(t, l) ==
    /\ ~Panicked
    /\ threads[t].pc = "locked" /\ threads[t].op = "Limit"
    /\ threads' = [threads EXCEPT ![t].pc = "read", ![t].val = limit[l]]
    /\ UNCHANGED <<cfg, limit, curr, prev, mu, call, helper, worker, stopC,
                   exitC, stopper, store, clock, rounds>>

\* The deferred calls on the way out: the rest of AllowN's Sync, then
\* lim.mu.Unlock().
GoReturn(t, l) ==
    /\ ~Panicked
    /\ threads[t].pc \in {"synced", "written", "read"}
    /\ IF threads[t].op = "AllowN"
       THEN SyncSecond(l)
       ELSE UNCHANGED <<curr, helper, worker, call, rounds>>
    /\ mu' = [mu EXCEPT ![l] = FALSE]
    /\ threads' = [threads EXCEPT ![t].pc = "done"]
    /\ UNCHANGED <<cfg, limit, prev, stopC, exitC, stopper, store, clock>>

InitConc ==
    \E c \in [{1} -> Configs] : NewLimiter(c)

NextConc ==
    \/ \E t \in Threads :
          \/ \E c \in ConcCalls : GoLock(t, 1, c)
          \/ GoAdvance(t, 1)
          \/ GoDecide(t, 1)
          \/ GoSync(t, 1)
          \/ GoSetLimit(t, 1)
          \/ GoLimit(t, 1)
          \/ GoReturn(t, 1)
    \/ syncLoopStart(1)
    \/ syncLoopExchange(1)

SpecConc == InitConc /\ [][NextConc]_vars

\* The same calls made one after another: the limiter's limit and
\* windows after the call c, and what the call returns.
Sequential(s, c) ==
    IF c.op = "AllowN"
    THEN LET a == advance("local", s.size, s.curr, s.prev, c.now)
             ok == Admit(ApproxCount(s.size, a.curr, a.prev, c.now), c.n, s.limit)
         IN [s EXCEPT !.curr = Decide("local", a.curr, ok, c.n),
                      !.prev = a.prev,
                      !.res = [ok |-> ok, val |-> 0]]
    ELSE IF c.op = "SetLimit"
    THEN [s EXCEPT !.limit = c.n, !.res = [ok |-> FALSE, val |-> 0]]
    ELSE [s EXCEPT !.res = [ok |-> FALSE, val |-> s.limit]]

\* The orders the goroutines' calls can be put in.
Orders ==
    {o \in [Threads -> Threads] : \A i, j \in Threads : o[i] = o[j] => i = j}

\* The limiter after the first k calls of the order o, the result of
\* every call so far being as the goroutine saw it.
RECURSIVE Replay(_, _)
Replay(o, k) ==
    IF k = 0
    THEN [size |-> cfg[1].size, limit |-> cfg[1].limit, curr |-> NoWin,
          prev |-> NoWin, res |-> [ok |-> FALSE, val |-> 0], same |-> TRUE]
    ELSE LET before == Replay(o, k - 1)
             t == threads[o[k]]
             after == Sequential(before, t)
         IN [after EXCEPT !.same =
                before.same
                /\ after.res.ok = t.ok
                /\ (t.op = "Limit" => after.res.val = t.val)]

\* ------------------------------------------------------------------------
\* Specification: one limiter with a Synchronized window, the only
\* writer of its Datastore, whose stop function is called while the
\* limiter is in use
\* ------------------------------------------------------------------------

InitStop ==
    \E c \in [{1} -> Configs] : c[1].kind # "local" /\ NewLimiter(c)

NextStop ==
    \E l \in DOMAIN cfg :
        \/ \E now \in Times, n \in Ns : now >= clock /\ AllowN(l, now, n)
        \/ AllowNReturn(l)
        \/ syncLoopStart(l)
        \/ syncLoopExchange(l)
        \/ syncLoopExit(l)
        \/ Stop(l)
        \/ StopReturn(l)

SpecStop == InitStop /\ [][NextStop]_vars

\* The goroutine is scheduled, a Datastore call in progress returns and a
\* goroutine blocked on a closed channel wakes up.
FairStop ==
    \A l \in {1} :
        /\ WF_vars(syncLoopStart(l))
        /\ WF_vars(syncLoopExchange(l))
        /\ WF_vars(syncLoopExit(l))
        /\ WF_vars(StopReturn(l))

SpecStopFair == SpecStop /\ FairStop

\* One limiter called with any instants, earlier ones after later ones
\* too.
InitBack == Init

NextBack ==
    \E l \in DOMAIN cfg :
        \/ \E now \in Times, n \in Ns : AllowN(l, now, n)
        \/ AllowNReturn(l)
        \/ syncLoopStart(l)
        \/ syncLoopExchange(l)

SpecBack == InitBack /\ [][NextBack]_vars

\* Two limiters with Synchronized current windows of the same kind that
\* share one Datastore and key, called within one window of 300ms.
TwoSize == 3
TwoLimit == 1
TwoTimes == 0..(TwoSize - 1)
TwoNs == {1}

InitTwo ==
    \E k \in Kinds \ {"local"} :
        NewLimiter([l \in {1, 2} |->
                       [size |-> TwoSize, limit |-> TwoLimit, kind |-> k,
                        interval |-> 1]])

NextTwo ==
    \E l \in DOMAIN cfg :
        \/ \E now \in TwoTimes, n \in TwoNs : now >= clock /\ AllowN(l, now, n)
        \/ AllowNReturn(l)
        \/ syncLoopStart(l)
        \/ syncLoopExchange(l)

SpecTwo == InitTwo /\ [][NextTwo]_vars

\* ------------------------------------------------------------------------
\* Specification: two limiters with SyncWindows of any kind on the same
\* key of one Datastore, over two windows
\* ------------------------------------------------------------------------

ShareSize == 2
ShareLimit == 1
ShareTimes == 0..(2 * ShareSize - 1)
ShareNs == {1}

InitShare ==
    \E k \in [{1, 2} -> Kinds \ {"local"}] :
        NewLimiter([l \in {1, 2} |->
                       [size |-> ShareSize, limit |-> ShareLimit, kind |-> k[l],
                        interval |-> 1]])

NextShare ==
    \E l \in DOMAIN cfg :
        \/ \E now \in ShareTimes, n \in ShareNs : now >= clock /\ AllowN(l, now, n)
        \/ AllowNReturn(l)
        \/ syncLoopStart(l)
        \/ syncLoopExchange(l)

SpecShare == InitShare /\ [][NextShare]_vars

\* ------------------------------------------------------------------------
\* Specification: one limiter with a SyncWindow that is not stopped, with
\* a scheduler that lets a call that has begun return and lets syncLoop
\* run.  The instants are bounded, so the calls whose instants keep
\* advancing past the sync interval are those of a limiter whose sync
\* interval is 0; with an interval of 100ms they come to an end.
\* ------------------------------------------------------------------------

LiveIntervals == {0, 1}

InitLive ==
    \E c \in [{1} -> [size : Sizes, limit : Limits,
                      kind : Kinds \ {"local"}, interval : LiveIntervals]] :
        NewLimiter(c)

NextLive ==
    \E l \in DOMAIN cfg :
        \/ \E now \in Times, n \in Ns : now >= clock /\ AllowN(l, now, n)
        \/ AllowNReturn(l)
        \/ syncLoopStart(l)
        \/ syncLoopExchange(l)

FairLive ==
    \A l \in {1} :
        /\ WF_vars(AllowNReturn(l))
        /\ WF_vars(syncLoopStart(l))
        /\ WF_vars(syncLoopExchange(l))

SpecLive == InitLive /\ [][NextLive]_vars

SpecLiveFair == SpecLive /\ FairLive

\* ------------------------------------------------------------------------
\* Properties
\* ------------------------------------------------------------------------

\* C1: every AllowN(now, n) with now at or after the current window's
\* start and n >= 0 returns false if
\* floor((size - elapsed) * previous.count / size) + current.count + n
\* exceeds the limit, and true otherwise (windows taken after rollover).
C1_DecisionByFloor ==
    \A l \in DOMAIN cfg :
        Decided(l) /\ call[l].now >= call[l].dec.curr.start /\ call[l].n >= 0 =>
            LET size == cfg[l].size
                elapsed == call[l].now - call[l].dec.curr.start
                approxCount == ((size - elapsed) * call[l].dec.prev.count) \div size
                               + call[l].dec.curr.count
            IN call[l].ok = ~(approxCount + call[l].n > limit[l])

\* C2 (as stated): when a rejected AllowN returns, both windows and the
\* pending changes are as they were when the decision was made.
C2_RejectLeavesAllUnchanged ==
    \A l \in DOMAIN cfg :
        Returned(l) /\ ~call[l].ok =>
            curr[l] = call[l].dec.curr /\ prev[l] = call[l].dec.prev

\* C2 (amended): a rejected AllowN adds nothing: the decision leaves the
\* current window as it was, the previous window and the current start
\* are unchanged at return, and the current count and pending changes
\* differ at return only by a successful, non-stale response applied by
\* the call's Sync (count += otherChanges, pendingChanges -= changes).
C2_RejectAddsNothing ==
    \A l \in DOMAIN cfg :
        Returned(l) /\ ~call[l].ok =>
            LET d == call[l].dec.curr
                r == call[l].resp
                applied == call[l].got /\ r.ok /\ r.start = d.start
            IN /\ call[l].add = d
               /\ prev[l] = call[l].dec.prev
               /\ curr[l].start = d.start
               /\ curr[l].count = d.count + (IF applied THEN r.other ELSE 0)
               /\ curr[l].changes = d.changes - (IF applied THEN r.changes ELSE 0)
               /\ (cfg[l].kind = "local" => curr[l] = d)

C2_Witness ==
    \E l \in DOMAIN cfg :
        /\ Returned(l) /\ ~call[l].ok /\ call[l].n > 0
        /\ call[l].got /\ call[l].resp.ok
        /\ curr[l].count # call[l].dec.curr.count

\* C3: an admitted AllowN(now, n) adds exactly n to the current window's
\* count and leaves the previous window as it was after rollover; the
\* AddCount of a Synchronized window adds n to the pending changes too.
C3_AdmitAddsN ==
    \A l \in DOMAIN cfg :
        Decided(l) /\ call[l].ok =>
            /\ call[l].add.count = call[l].dec.curr.count + call[l].n
            /\ call[l].add.start = call[l].dec.curr.start
            /\ prev[l] = call[l].dec.prev
            /\ (cfg[l].kind # "local" =>
                    call[l].add.changes = call[l].dec.curr.changes + call[l].n)
            /\ (cfg[l].kind = "local" \/ ~call[l].got => curr[l] = call[l].add)

C3_Witness ==
    \E l \in DOMAIN cfg :
        /\ Returned(l) /\ call[l].ok /\ call[l].n > 0
        /\ cfg[l].kind # "local"
        /\ call[l].dec.curr.changes > 0
        /\ curr[l].changes = call[l].dec.curr.changes + call[l].n

\* C4: admission is monotonic: in any state and at any instant t, if
\* AllowN(t, n) is rejected then so is AllowN(t, n2) for every n2 > n.
C4_AdmissionMonotonic ==
    \A l \in DOMAIN cfg : \A t \in Times : \A n \in Ns : \A n2 \in Ns :
        n2 > n /\ ENABLED (AllowN(l, t, n) /\ ~call'[l].ok) =>
            ~ENABLED (AllowN(l, t, n2) /\ call'[l].ok)

C4_Witness ==
    \E l \in DOMAIN cfg : \E t \in Times : \E n \in Ns :
        /\ n < MaxN
        /\ ENABLED (AllowN(l, t, n) /\ ~call'[l].ok)
        /\ ENABLED (AllowN(l, t, 0) /\ call'[l].ok)

\* C5 (as stated): rollover contiguity: when now falls in the window
\* right after the current one, advance leaves previous.count = the old
\* current.count, previous.start + size = current.start, and the current
\* window at floor(now/size)*size with count 0.
C5_RolloverToFloor ==
    [][\A l \in DOMAIN cfg :
        LET size == cfg[l].size
            now == call'[l].now
            d == call'[l].dec
        IN CallStart(l) /\ now >= curr[l].start + size
                        /\ now < curr[l].start + 2 * size =>
              /\ d.prev.count = curr[l].count
              /\ d.prev.start + size = d.curr.start
              /\ d.curr.start = (now \div size) * size
              /\ d.curr.count = 0
              /\ prev'[l] = d.prev]_vars

\* C5 (amended): rollover contiguity: when advance finds diff = 1, which
\* it does whenever the current start is on the grid of time.Truncate
\* and now falls in the window right after the current one, it leaves
\* previous.count = the old current.count, previous.start + size =
\* current.start, and the current window with count 0 at
\* now.Truncate(size): the instant of that grid (the multiples of size
\* after Go's zero time) at or right before now.
C5_RolloverContiguity ==
    [][\A l \in DOMAIN cfg :
        LET size == cfg[l].size
            now == call'[l].now
            d == call'[l].dec
        IN /\ CallStart(l) /\ OnGrid(curr[l].start, size)
                           /\ now >= curr[l].start + size
                           /\ now < curr[l].start + 2 * size =>
                 call'[l].diff = 1
           /\ CallStart(l) /\ call'[l].diff = 1 =>
                 /\ d.prev.count = curr[l].count
                 /\ d.prev.start + size = d.curr.start
                 /\ OnGrid(d.curr.start, size)
                 /\ d.curr.start <= now /\ now < d.curr.start + size
                 /\ d.curr.count = 0
                 /\ prev'[l] = d.prev]_vars

C5_Witness ==
    \E l \in DOMAIN cfg :
        /\ Decided(l) /\ call[l].diff = 1 /\ call[l].dec.prev.count > 0
        /\ call[l].dec.curr.start # (call[l].now \div cfg[l].size) * cfg[l].size
        /\ call[l].dec.prev.start > 0

\* C6 (as stated): rollover discontinuity: when now is more than one
\* window size past the current window, advance leaves previous.count =
\* 0 and the current window at floor(now/size)*size with count 0, and a
\* request of n = limit is admitted.
C6_RolloverToFloor ==
    [][\A l \in DOMAIN cfg :
        LET size == cfg[l].size
            now == call'[l].now
            d == call'[l].dec
        IN CallStart(l) /\ now >= curr[l].start + 2 * size =>
              /\ d.prev.count = 0
              /\ d.curr.start = (now \div size) * size
              /\ d.curr.count = 0
              /\ (call'[l].n = limit[l] => call'[l].ok)]_vars

\* C6 (amended): rollover discontinuity: when advance finds diff > 1,
\* which it does whenever the current start is on the grid of
\* time.Truncate and now is more than one window size past the current
\* window, it leaves previous.count = 0 and the current window with
\* count 0 at now.Truncate(size), and a request of n = limit is admitted.
C6_RolloverDiscontinuity ==
    [][\A l \in DOMAIN cfg :
        LET size == cfg[l].size
            now == call'[l].now
            d == call'[l].dec
        IN /\ CallStart(l) /\ OnGrid(curr[l].start, size)
                           /\ now >= curr[l].start + 2 * size =>
                 call'[l].diff > 1
           /\ CallStart(l) /\ call'[l].diff > 1 =>
                 /\ d.prev.count = 0
                 /\ d.prev.start + size = d.curr.start
                 /\ OnGrid(d.curr.start, size)
                 /\ d.curr.start <= now /\ now < d.curr.start + size
                 /\ d.curr.count = 0
                 /\ (call'[l].n = limit[l] => call'[l].ok)]_vars

C6_Witness ==
    \E l \in DOMAIN cfg :
        /\ Decided(l) /\ call[l].diff > 1
        /\ call[l].n = limit[l] /\ call[l].ok
        /\ call[l].dec.curr.start # (call[l].now \div cfg[l].size) * cfg[l].size
        /\ store # <<>>

\* C10: AllowN never fails: in every state a call of AllowN can be made
\* and, once made, returns, whatever the Datastore answers; and the
\* decision does not depend on how the exchange of that call ends.
C10_AllowNNeverFails ==
    \A l \in DOMAIN cfg :
        /\ mu[l] => ENABLED AllowNReturn(l)
        /\ ~mu[l] =>
             \A t \in Times : \A n \in Ns :
                /\ ENABLED AllowN(l, t, n)
                /\ ~(/\ ENABLED (AllowN(l, t, n) /\ call'[l].ok)
                     /\ ENABLED (AllowN(l, t, n) /\ ~call'[l].ok))
        /\ call[l].ok \in BOOLEAN

C10_Witness ==
    \E l \in DOMAIN cfg :
        /\ Returned(l) /\ call[l].ok
        /\ call[l].got /\ ~call[l].resp.ok
        /\ helper[l].lastSynced = call[l].now

\* C7: the scenario of a Local limiter of one second and ten events, t0
\* on a window boundary: AllowN(t0,1), (t0+100ms,2), (t0+200ms,3),
\* (t0+500ms,5), (t0+1000ms,2), (t0+1200ms,5), (t0+1500ms,5),
\* (t0+3000ms,10) return true, true, true, false, true, false, true, true.
C7_Scenario ==
    Decided(1) =>
        \E i \in 1..Len(Offsets) :
            /\ call[1].now = T0Of(call[1].now) + Offsets[i]
            /\ call[1].n = Counts[i]
            /\ call[1].ok = Expected[i]

C7_Witness ==
    /\ Returned(1)
    /\ T0Of(call[1].now) > 0
    /\ call[1].now = T0Of(call[1].now) + Offsets[7]
    /\ call[1].ok /\ call[1].dec.prev.count = 6 /\ curr[1].count = 7

\* C8: Limit() returns the limit given at construction until SetLimit is
\* called and the argument of the latest SetLimit afterwards; SetLimit
\* changes the limit and nothing else of the limiter (size and windows
\* stay); AllowN decides against the limit in force; nothing changes
\* Size().
C8_LimitAndSize ==
    /\ \A l \in DOMAIN cfg : limit[l] = cfg[l].limit
    /\ [][\A l \in DOMAIN cfg :
            /\ cfg'[l] = cfg[l]
            /\ (limit'[l] # limit[l] =>
                    call'[l].op = "SetLimit" /\ call'[l] # call[l])
            /\ (call'[l] # call[l] /\ call'[l].op = "SetLimit" =>
                    /\ limit'[l] = call'[l].n
                    /\ curr'[l] = curr[l] /\ prev'[l] = prev[l])
            /\ (call'[l] # call[l] /\ call'[l].op = "Limit" =>
                    call'[l].val = limit[l] /\ limit'[l] = limit[l])
            /\ (call'[l] # call[l] /\ call'[l].op = "Size" =>
                    call'[l].val = cfg[l].size)
            /\ (CallStart(l) =>
                    call'[l].ok = ~(call'[l].count + call'[l].n > limit[l]))]_vars

C8_Witness ==
    \E l \in DOMAIN cfg :
        /\ call[l].op = "Limit"
        /\ call[l].val # cfg[l].limit
        /\ call[l].val = limit[l]
        /\ curr[l].count > cfg[l].limit

\* C9: the lock totally orders the calls of concurrent goroutines: at
\* most one goroutine is between Lock and Unlock, and when all have
\* returned, their results and the limiter's limit and windows are those
\* of the same calls made one after another in some order (so no
\* admitted increment is lost).
C9_LockOrdersCalls ==
    /\ Cardinality(Holding) <= 1
    /\ mu[1] = (Holding # {})
    /\ (\A t \in Threads : threads[t].pc = "done") =>
          \E o \in Orders :
              LET s == Replay(o, MaxThreads)
              IN /\ s.same
                 /\ limit[1] = s.limit
                 /\ curr[1].start = s.curr.start /\ curr[1].count = s.curr.count
                 /\ prev[1].start = s.prev.start /\ prev[1].count = s.prev.count

C9_Witness ==
    /\ \A t \in Threads : threads[t].pc = "done" /\ threads[t].op = "AllowN"
    /\ \E t, u \in Threads :
          /\ t # u
          /\ threads[t].ok /\ ~threads[u].ok
          /\ threads[t].now = threads[u].now
    /\ cfg[1].kind = "nonblocking"

\* C15: Stop() on a started Non-blocking synchronizer terminates and is
\* synchronous: once Stop has closed stopC and waits, it eventually
\* returns (the goroutine exits from wherever it stands, also when it
\* holds a response nobody will take), and it has returned only if the
\* goroutine has closed exitC and exited.
C15_StopTerminates ==
    /\ \A l \in {1} : stopper[l].pc = "wait" ~> stopper[l].pc = "returned"
    /\ [](\A l \in DOMAIN cfg :
            cfg[l].kind = "nonblocking" /\ stopper[l].pc = "returned" =>
                exitC[l] /\ worker[l].pc = "exited")

C15_Witness ==
    \E l \in DOMAIN cfg :
        /\ cfg[l].kind = "nonblocking"
        /\ stopper[l].pc = "returned"
        /\ worker[l].pc = "exited"
        /\ worker[l].resp.ok
        /\ helper[l].inProgress

\* C11: stale responses are discarded: a response is applied (count +=
\* otherChanges, pendingChanges -= changes) only when it is OK and its
\* start, which is the start the window had when the request was built,
\* equals the window's start when it is handled; if the window has been
\* reset in between, handling leaves count and pendingChanges unchanged.
C11_StaleDiscarded ==
    [][\A l \in DOMAIN cfg :
        LET r == call'[l].resp
            Applied(w) == [w EXCEPT !.count = @ + r.other,
                                    !.changes = @ - r.changes]
        IN /\ HandledNonblocking(l) =>
                /\ r.ok => r.start = worker[l].req.start
                /\ curr'[l] = IF r.ok /\ r.start = curr[l].start
                              THEN Applied(curr[l]) ELSE curr[l]
           /\ HandledBlocking(l) =>
                curr'[l] = IF r.ok /\ r.start = call'[l].add.start
                           THEN Applied(call'[l].add) ELSE call'[l].add]_vars

C11_Witness ==
    \E l \in DOMAIN cfg :
        /\ Returned(l) /\ call[l].got
        /\ call[l].resp.ok /\ call[l].resp.start # curr[l].start
        /\ call[l].resp.other > 0 /\ call[l].resp.changes > 0
        /\ curr[l] = call[l].add

\* C12: when the Datastore's Add or Get returns an error, nothing of the
\* round is applied: the failing exchange and the handling of its
\* response leave the window's count and pendingChanges as they were,
\* and the handling clears inProgress, so that a later Sync can start
\* a new exchange.
C12_ErrorAppliesNothing ==
    [][\A l \in DOMAIN cfg :
        /\ HandledNonblocking(l) /\ ~call'[l].resp.ok =>
              /\ curr'[l] = curr[l]
              /\ helper[l].inProgress /\ ~helper'[l].inProgress
        /\ HandledBlocking(l) /\ ~call'[l].resp.ok =>
              /\ curr'[l] = call'[l].add
              /\ ~helper'[l].inProgress
        /\ worker[l].pc = "call" /\ worker'[l].pc = "send"
                                 /\ ~worker'[l].resp.ok =>
              curr'[l] = curr[l]]_vars

C12_Witness ==
    \E l \in DOMAIN cfg :
        /\ cfg[l].kind = "nonblocking"
        /\ Returned(l) /\ call[l].got /\ ~call[l].resp.ok
        /\ curr[l].changes > 0
        /\ ~helper[l].inProgress /\ worker[l].pc = "recv"

\* C13: a Non-blocking synchronizer has at most one exchange outstanding:
\* the goroutine holds a request only between receiving it and
\* delivering its response (or exiting), inProgress is set exactly while
\* it does, and Sync hands over a request only when none is outstanding;
\* a call that finds one outstanding sends nothing.
C13_OneOutstanding ==
    /\ [](\A l \in DOMAIN cfg :
            cfg[l].kind = "nonblocking" =>
                /\ Outstanding(l) => helper[l].inProgress
                /\ helper[l].inProgress =>
                      Outstanding(l) \/ worker[l].pc = "exited"
                /\ worker[l].pc \in {"spawned", "recv"} =>
                      worker[l].req = NoReq /\ worker[l].resp = NoResp)
    /\ [][\A l \in DOMAIN cfg :
            cfg[l].kind = "nonblocking" =>
                /\ CallStart(l) /\ call'[l].sent =>
                      ~Outstanding(l) /\ ~helper[l].inProgress
                                      /\ worker[l].pc = "recv"
                /\ CallStart(l) /\ Outstanding(l) =>
                      ~call'[l].sent /\ worker'[l] = worker[l]]_vars

C13_Witness ==
    \E l \in DOMAIN cfg :
        /\ cfg[l].kind = "nonblocking"
        /\ Decided(l) /\ mu[l] /\ ~call[l].sent
        /\ worker[l].pc = "call"
        /\ call[l].now - helper[l].lastSynced >= cfg[l].interval
        /\ call[l].add.changes > worker[l].req.changes

\* C14: the Sync of a Non-blocking synchronizer never blocks the caller:
\* wherever the goroutine stands (not yet scheduled, waiting for a
\* request, in a Datastore call, waiting to deliver a response, exited),
\* a call can run up to its Sync's first select and from there to its
\* return without any step of the goroutine or of the Datastore.
C14_SyncNeverBlocks ==
    \A l \in DOMAIN cfg :
        cfg[l].kind = "nonblocking" /\ ~Panicked =>
            /\ worker[l].pc \in {"spawned", "recv", "call", "send", "exited"}
            /\ mu[l] => ENABLED AllowNReturn(l)
            /\ ~mu[l] => \A n \in Ns : ENABLED AllowN(l, clock, n)

C14_Witness ==
    \E l \in DOMAIN cfg :
        /\ cfg[l].kind = "nonblocking"
        /\ Returned(l) /\ ~call[l].sent /\ ~call[l].got
        /\ worker[l].pc = "call" /\ helper[l].inProgress
        /\ call[l].now >= helper[l].lastSynced + cfg[l].interval
        /\ ~stopC[l]

\* C16: after Stop() has returned on a Non-blocking synchronizer there is
\* no background activity: the goroutine takes no step (no Datastore
\* call, no send, no receive), and a later Sync dispatches no request,
\* applies no response and leaves the window as AddCount left it, while
\* the call still runs to its return.
C16_QuietAfterStop ==
    [][\A l \in DOMAIN cfg :
        cfg[l].kind = "nonblocking" /\ stopper[l].pc = "returned" =>
            /\ worker'[l] = worker[l]
            /\ store' = store
            /\ helper'[l] = helper[l]
            /\ CallStart(l) =>
                  /\ ~call'[l].sent /\ ~call'[l].got
                  /\ curr'[l] = call'[l].add
            /\ mu[l] /\ ~mu'[l] =>
                  /\ ~call'[l].got
                  /\ curr'[l] = curr[l]]_vars

C16_Witness ==
    \E l \in DOMAIN cfg :
        /\ cfg[l].kind = "nonblocking"
        /\ stopper[l].pc = "returned"
        /\ Returned(l) /\ call[l].ok /\ call[l].n > 0
        /\ ~call[l].sent /\ ~call[l].got
        /\ ~helper[l].inProgress
        /\ helper[l].lastSynced # ZeroTime
        /\ call[l].now >= helper[l].lastSynced + cfg[l].interval
        /\ curr[l].changes > 0

\* C17 (as stated): both windows of a limiter come from the caller's
\* window factory, the previous one as the current one, and the stop
\* function NewLimiter returns stops both, so that once it has returned
\* no background task of the limiter is running.
C17_StopsBothFactoryWindows ==
    \A l \in DOMAIN cfg :
        /\ PrevKind = cfg[l].kind
        /\ stopper[l].pc = "returned" => worker[l].pc \in {"none", "exited"}

\* C17 (amended): only the current window comes from the factory; the
\* previous window is a Local window (no pending changes, no task), and
\* the stop function NewLimiter returns is the current window's: once it
\* has returned, the limiter's one background task, if it has one, has
\* exited.
C17_StopStopsCurrent ==
    \A l \in DOMAIN cfg :
        /\ PrevKind = "local" /\ prev[l].changes = 0
        /\ (worker[l].pc = "none") = (cfg[l].kind # "nonblocking")
        /\ stopper[l].pc = "returned" =>
              /\ worker[l].pc \in {"none", "exited"}
              /\ cfg[l].kind = "nonblocking" => stopC[l] /\ exitC[l]

C17_Witness ==
    \E l \in DOMAIN cfg :
        /\ cfg[l].kind = "nonblocking"
        /\ stopper[l].pc = "returned" /\ worker[l].pc = "exited"
        /\ prev[l].count > 0 /\ curr[l].changes > 0

\* C19 (as stated): after every call of advance, also one that causes no
\* rollover, from a freshly constructed limiter,
\* previous.start + size = current.start.
C19_ContiguousAfterAdvance ==
    \A l \in DOMAIN cfg :
        Decided(l) => prev[l].start + cfg[l].size = curr[l].start

\* C19 (amended): in every state either advance has not rolled over yet
\* (both windows have the start they were constructed with, the Unix
\* epoch, and the previous window is empty), or
\* previous.start + size = current.start.
C19_ContiguousOnceRolled ==
    \A l \in DOMAIN cfg :
        \/ prev[l].start = 0 /\ curr[l].start = 0 /\ prev[l].count = 0
        \/ prev[l].start + cfg[l].size = curr[l].start

C19_Witness ==
    \E l \in DOMAIN cfg :
        /\ Returned(l) /\ call[l].diff = 0
        /\ curr[l].start > cfg[l].size
        /\ prev[l].start + cfg[l].size = curr[l].start
        /\ prev[l].count = 0 /\ curr[l].count > 0

\* C20 (as stated): in every reachable state the starts of the current
\* and of the previous window are multiples of the window size.
C20_StartsMultiplesOfSize ==
    \A l \in DOMAIN cfg :
        curr[l].start % cfg[l].size = 0 /\ prev[l].start % cfg[l].size = 0

\* C20 (amended): in every reachable state the start of either window is
\* the Unix epoch, as constructed, or an instant time.Truncate rounds to:
\* a multiple of the window size after Go's zero time.
C20_StartsOnGrid ==
    \A l \in DOMAIN cfg :
        /\ curr[l].start = 0 \/ OnGrid(curr[l].start, cfg[l].size)
        /\ prev[l].start = 0 \/ OnGrid(prev[l].start, cfg[l].size)

C20_Witness ==
    \E l \in DOMAIN cfg :
        /\ Returned(l)
        /\ curr[l].start % cfg[l].size # 0
        /\ prev[l].start % cfg[l].size # 0
        /\ prev[l].start + cfg[l].size = curr[l].start
        /\ prev[l].count > 0

\* C18 (as stated): when two limiters that share the Datastore have each
\* admitted events in the same window, no limiter has admitted since, and
\* each has completed at least two successful synchronization rounds for
\* that window since, both hold the same current count, the Datastore's
\* total for that window.
C18_ConvergedAfterTwoRounds ==
    (/\ DOMAIN cfg = {1, 2}
     /\ curr[1].start = curr[2].start
     /\ rounds[1].adm /\ rounds[2].adm
     /\ rounds[1].own >= 2 /\ rounds[2].own >= 2)
    => /\ curr[1].count = curr[2].count
       /\ curr[1].count = StoreGet(store, curr[1].start)

\* C18 (amended): when in addition the two rounds of each limiter were
\* completed after the last Add to the Datastore, so after the pending
\* admissions of both limiters had reached it, both hold the same
\* current count, the Datastore's total for that window, and have no
\* changes left to send.
C18_ConvergedOnceSettled ==
    (/\ DOMAIN cfg = {1, 2}
     /\ curr[1].start = curr[2].start
     /\ rounds[1].adm /\ rounds[2].adm
     /\ rounds[1].settled >= 2 /\ rounds[2].settled >= 2)
    => /\ curr[1].count = curr[2].count
       /\ curr[1].count = StoreGet(store, curr[1].start)
       /\ curr[1].changes = 0 /\ curr[2].changes = 0

C18_Witness ==
    /\ DOMAIN cfg = {1, 2}
    /\ Returned(1) /\ Returned(2)
    /\ curr[1].start = curr[2].start
    /\ rounds[1].adm /\ rounds[2].adm
    /\ rounds[1].settled >= 2 /\ rounds[2].settled >= 2
    /\ curr[1].count = 2 /\ curr[2].count = 2
    /\ StoreGet(store, curr[1].start) = 2

\* C21 (as stated): in every AllowN call, with elapsed = now - start of the
\* current window after the rollover, 0 <= size - elapsed < size: the
\* weight lies in [0, 1).
C21_WeightBelowOne ==
    [][\A l \in DOMAIN cfg :
          CallStart(l) =>
              LET elapsed == call'[l].now - call'[l].dec.curr.start
              IN /\ 0 <= cfg[l].size - elapsed
                 /\ cfg[l].size - elapsed < cfg[l].size]_vars

\* C21 (amended): in every AllowN call whose current window, after the
\* rollover, starts at an instant time.Truncate rounds to (as it does
\* after every rollover), 0 < size - elapsed <= size: the weight lies in
\* (0, 1], and is 1 for a call made at the start of the window.
C21_WeightAboveZero ==
    [][\A l \in DOMAIN cfg :
          (CallStart(l) /\ OnGrid(call'[l].dec.curr.start, cfg[l].size)) =>
              LET elapsed == call'[l].now - call'[l].dec.curr.start
              IN /\ 0 < cfg[l].size - elapsed
                 /\ cfg[l].size - elapsed <= cfg[l].size]_vars

C21_Witness ==
    \E l \in DOMAIN cfg :
        /\ Returned(l) /\ call[l].diff = 1
        /\ OnGrid(call[l].dec.curr.start, cfg[l].size)
        /\ call[l].now = call[l].dec.curr.start
        /\ call[l].dec.prev.count > 0
        /\ call[l].count = call[l].dec.prev.count

\* C22: for every previous count P >= 0, current count C and elapsed
\* times e1 <= e2 in [0, size), the count AllowN computes at e1 is at
\* least the count it computes at e2: the estimate never grows as the
\* window elapses.
C22_InterpolationMonotonic ==
    \A l \in DOMAIN cfg :
    \A P \in (0..MaxPrevCount) \cup {prev[l].count} :
    \A e1, e2 \in 0..(cfg[l].size - 1) :
        e1 <= e2 =>
            ApproxCount(cfg[l].size, curr[l],
                        [prev[l] EXCEPT !.count = P], curr[l].start + e1)
            >= ApproxCount(cfg[l].size, curr[l],
                           [prev[l] EXCEPT !.count = P], curr[l].start + e2)

C22_Witness ==
    \E l \in DOMAIN cfg :
        /\ Returned(l)
        /\ call[l].dec.prev.count > 0
        /\ call[l].now > call[l].dec.curr.start
        /\ call[l].count < call[l].dec.prev.count + call[l].dec.curr.count
        /\ call[l].count
              < ApproxCount(cfg[l].size, call[l].dec.curr, call[l].dec.prev,
                            call[l].dec.curr.start)

\* C23 (as stated): a rollover of a Synchronized window leaves the
\* current window at the new start with count 0 and no changes, and the
\* Datastore's total for a window the limiter has vacated is never
\* raised afterwards.
C23_VacatedNeverSent ==
    [][\A l \in DOMAIN cfg :
          cfg[l].kind # "local" =>
              /\ (CallStart(l) /\ call'[l].diff >= 1) =>
                     call'[l].dec.curr =
                         [start |-> Truncate(call'[l].now, cfg[l].size),
                          count |-> 0, changes |-> 0]
              /\ \A s \in DOMAIN store' :
                     s < curr'[l].start =>
                         StoreGet(store', s) = StoreGet(store, s)]_vars

\* C23 (amended): a rollover of a Synchronized window leaves the
\* current window at the new start with count 0 and no changes, and the
\* Datastore's total for a window the limiter has vacated is raised
\* afterwards only by the background task carrying out a request that
\* was handed to it before the rollover, by that request's changes.
C23_VacatedOnlyInFlight ==
    [][\A l \in DOMAIN cfg :
          cfg[l].kind # "local" =>
              /\ (CallStart(l) /\ call'[l].diff >= 1) =>
                     call'[l].dec.curr =
                         [start |-> Truncate(call'[l].now, cfg[l].size),
                          count |-> 0, changes |-> 0]
              /\ \A s \in DOMAIN store' :
                     (s < curr'[l].start
                      /\ StoreGet(store', s) # StoreGet(store, s)) =>
                         /\ worker[l].pc = "call" /\ worker'[l].pc = "send"
                         /\ worker[l].req.start = s
                         /\ worker[l].req.changes > 0
                         /\ StoreGet(store', s)
                              = StoreGet(store, s) + worker[l].req.changes]_vars

C23_Witness ==
    \E l \in DOMAIN cfg :
        /\ cfg[l].kind # "local"
        /\ Returned(l) /\ call[l].diff = 1
        /\ call[l].dec.curr = [start |-> call[l].now, count |-> 0, changes |-> 0]
        /\ prev[l].count > 0
        /\ StoreGet(store, prev[l].start) = 0
        /\ worker[l].pc \notin {"call", "send"}

\* C24: a Sync call starts an exchange only if no exchange is in flight
\* and at least the sync interval has passed since the last exchange was
\* started; when it starts one, the last exchange start becomes now and
\* the exchange is in flight (until its response is handled, which the
\* Blocking synchronizer does in the same call); when it starts none,
\* flag and time are left alone; the first Sync call of a fresh
\* synchronizer is due, and a due Blocking Sync starts an exchange.
C24_ExchangeOnlyWhenDue ==
    [][\A l \in DOMAIN cfg :
          (cfg[l].kind # "local" /\ CallStart(l)) =>
              LET now == call'[l].now
                  fresh == helper[l] = [inProgress |-> FALSE,
                                        lastSynced |-> ZeroTime]
                  due == /\ ~helper[l].inProgress
                         /\ now - helper[l].lastSynced >= cfg[l].interval
              IN /\ call'[l].sent => due
                 /\ call'[l].sent =>
                        /\ helper'[l].lastSynced = now
                        /\ helper'[l].inProgress = ~call'[l].got
                 /\ ~call'[l].sent => helper'[l] = helper[l]
                 /\ fresh => due
                 /\ (cfg[l].kind = "blocking" /\ due) => call'[l].sent]_vars

C24_Witness ==
    \E l \in DOMAIN cfg :
        /\ cfg[l].kind = "nonblocking"
        /\ Decided(l) /\ call[l].sent
        /\ call[l].now >= 1
        /\ helper[l].inProgress /\ helper[l].lastSynced = call[l].now
        /\ curr[l].count > 0

\* C25: one exchange for a request calls Datastore.Add(start, changes)
\* once if changes > 0 and Datastore.Get(start) once otherwise, never
\* both; on success the response has ok = true, the request's start and
\* changes, and otherChanges = the new total - the request's count; on
\* an error the Datastore is left as it was.
C25_OneDatastoreCall ==
    [][\A l \in DOMAIN cfg :
          LET blocking == CallStart(l) /\ cfg[l].kind = "blocking"
                          /\ call'[l].sent
              loop == worker[l].pc = "call" /\ worker'[l].pc = "send"
              req == IF loop THEN worker[l].req
                     ELSE makeSyncRequest(call'[l].add)
              resp == IF loop THEN worker'[l].resp ELSE call'[l].resp
              total == StoreGet(store, req.start)
          IN (blocking \/ loop) =>
               /\ \E fails \in BOOLEAN :
                     LET x == sync(store, req, fails)
                     IN /\ x.store = store' /\ x.resp = resp
                        /\ Len(x.calls) = 1
                        /\ x.calls[1].op
                             = IF req.changes > 0 THEN "Add" ELSE "Get"
                        /\ x.calls[1].start = req.start
                        /\ x.calls[1].delta = req.changes
               /\ resp.ok =>
                     /\ resp.start = req.start
                     /\ resp.changes = req.changes
                     /\ resp.other = StoreGet(store', req.start) - req.count
                     /\ StoreGet(store', req.start) = total + req.changes
               /\ ~resp.ok => store' = store
               /\ \A s \in DOMAIN store' \ {req.start} :
                     StoreGet(store', s) = StoreGet(store, s)]_vars

C25_Witness ==
    \E l \in DOMAIN cfg :
        /\ Returned(l) /\ call[l].got
        /\ call[l].resp.ok
        /\ call[l].resp.changes > 0 /\ call[l].resp.other > 0
        /\ StoreGet(store, call[l].resp.start)
             >= call[l].resp.changes + call[l].resp.other

\* C26: handling a successful response whose start is the window's
\* current start adds otherChanges to the count, takes the response's
\* changes off the pending changes and leaves the start as it is.
C26_HandleAppliesExactly ==
    [][\A l \in DOMAIN cfg :
          LET before == IF HandledBlocking(l) THEN call'[l].add ELSE curr[l]
              resp == call'[l].resp
          IN ((HandledBlocking(l) \/ HandledNonblocking(l))
              /\ resp.ok /\ resp.start = before.start) =>
                 curr'[l] = [start |-> before.start,
                             count |-> before.count + resp.other,
                             changes |-> before.changes - resp.changes]]_vars

C26_Witness ==
    \E l \in DOMAIN cfg :
        /\ cfg[l].kind = "nonblocking"
        /\ Returned(l) /\ call[l].got /\ ~call[l].sent
        /\ call[l].resp.ok /\ call[l].resp.start = curr[l].start
        /\ call[l].resp.changes > 0 /\ call[l].resp.other > 0
        /\ curr[l].count = call[l].add.count + call[l].resp.other
        /\ curr[l].changes = call[l].add.changes - call[l].resp.changes

\* C27: a due Blocking Sync marks the exchange in flight, performs the
\* exchange and invokes handleResponse, in that order and within the
\* call; the flag is off when the call returns; a Blocking Sync that is
\* not due calls neither the Datastore nor makeRequest nor
\* handleResponse.
C27_BlockingMarksThenExchanges ==
    [][\A l \in DOMAIN cfg :
          (cfg[l].kind = "blocking" /\ CallStart(l)) =>
              LET due == isTimeUp(helper[l], call'[l].now, cfg[l].interval)
                  st == call'[l].steps
              IN /\ due => \E i, j, k \in DOMAIN st :
                              /\ i < j /\ j < k
                              /\ st[i].op = "begin"
                              /\ st[j].op = "sync"
                              /\ st[k].op = "handleResponse"
                 /\ ~helper'[l].inProgress
                 /\ ~due => /\ st = <<>>
                            /\ store' = store
                            /\ curr'[l] = call'[l].add]_vars

\* C28 (as stated): no Non-blocking Sync call both hands a request to the
\* background task and applies a response.
C28_NeverBothInOneCall ==
    \A l \in DOMAIN cfg :
        cfg[l].kind = "nonblocking" => ~(call[l].sent /\ call[l].got)

\* C28 (amended): a Non-blocking Sync call applies a response exactly
\* when the background task has finished an exchange and is offering
\* the response as the call reaches its second select.  A call that has
\* handed off a request whose exchange is not yet finished applies
\* nothing and leaves the exchange in flight for a later call; a call
\* that applies a response after its own hand-off applies the response
\* to the very request it handed off.
C28_SecondCallUnlessExchangeDone ==
    [][\A l \in DOMAIN cfg :
          (cfg[l].kind = "nonblocking" /\ mu[l] /\ ~mu'[l]
           /\ call[l].op = "AllowN") =>
              /\ call'[l].got = (worker[l].pc = "send")
              /\ (call[l].sent /\ worker[l].pc = "call") =>
                     /\ ~call'[l].got
                     /\ helper'[l].inProgress
                     /\ curr'[l] = call[l].add
              /\ (call[l].sent /\ call'[l].got) =>
                     /\ worker[l].req = makeSyncRequest(call[l].add)
                     /\ [op \in 1..6 |-> call'[l].steps[op].op]
                          = <<"makeRequest", "send", "begin", "receive",
                              "handleResponse", "end">>]_vars

C28_Witness ==
    \E l \in DOMAIN cfg :
        /\ cfg[l].kind = "nonblocking"
        /\ Returned(l) /\ call[l].sent /\ call[l].got
        /\ call[l].resp.ok /\ call[l].resp.changes > 0
        /\ call[l].resp.changes = call[l].add.changes
        /\ curr[l].changes = 0

\* C29: a step of the Non-blocking synchronizer's background task alone
\* leaves the limiter, its windows, the in-progress flag and the time of
\* the last exchange as they are; what it does to the Datastore and the
\* response it produces depend on the request it received and the
\* Datastore only; windows, flag and time change, and makeRequest and
\* handleResponse run, only in steps of a caller's Sync.
C29_TaskTouchesNoWindow ==
    [][\A l \in DOMAIN cfg :
          LET caller == mu'[l] # mu[l]
              task == worker'[l] # worker[l] /\ ~caller
          IN /\ task =>
                  /\ curr'[l] = curr[l] /\ prev'[l] = prev[l]
                  /\ limit'[l] = limit[l] /\ helper'[l] = helper[l]
                  /\ call'[l] = call[l]
                  /\ worker'[l].req = worker[l].req
                  /\ IF worker[l].pc = "call"
                     THEN \E fails \in BOOLEAN :
                            LET x == sync(store, worker[l].req, fails)
                            IN store' = x.store /\ worker'[l].resp = x.resp
                     ELSE store' = store /\ worker'[l].resp = worker[l].resp
             /\ (curr'[l] # curr[l] \/ prev'[l] # prev[l]
                 \/ helper'[l] # helper[l] \/ call'[l].steps # call[l].steps)
                    => caller]_vars

C29_Witness ==
    \E l \in DOMAIN cfg :
        /\ cfg[l].kind = "nonblocking"
        /\ ~mu[l]
        /\ worker[l].pc = "send" /\ worker[l].resp.ok
        /\ worker[l].resp.changes > 0
        /\ StoreGet(store, worker[l].resp.start) >= worker[l].resp.changes
        /\ helper[l].inProgress
        /\ curr[l].start = worker[l].resp.start
        /\ curr[l].changes >= worker[l].resp.changes

\* C30: when a Non-blocking Sync is due but the background task is not
\* waiting to receive, the call hands off nothing: the task and the
\* Datastore are as before, nothing of the call is delivered later, and
\* the in-progress flag and the time of the last exchange are unchanged,
\* so that a Sync at any later instant is due as well.
C30_DropIfBusy ==
    [][\A l \in DOMAIN cfg :
          /\ (/\ cfg[l].kind = "nonblocking" /\ CallStart(l)
              /\ ~helper[l].inProgress
              /\ call'[l].now - helper[l].lastSynced >= cfg[l].interval
              /\ ~(worker[l].pc = "recv" /\ ~stopC[l])) =>
                 /\ ~call'[l].sent /\ call'[l].steps = <<>>
                 /\ worker'[l] = worker[l] /\ store' = store
                 /\ helper'[l] = helper[l]
                 /\ curr'[l] = call'[l].add
                 /\ \A t \in Times :
                       t >= call'[l].now =>
                           isTimeUp(helper'[l], t, cfg[l].interval)
          /\ (/\ cfg[l].kind = "nonblocking" /\ mu[l] /\ ~mu'[l]
              /\ call[l].op = "AllowN"
              /\ ~call[l].sent /\ ~helper[l].inProgress) =>
                 /\ worker'[l] = worker[l] /\ store' = store
                 /\ helper'[l] = helper[l]
                 /\ worker[l].req = NoReq]_vars

C30_Witness ==
    \E l \in DOMAIN cfg :
        /\ cfg[l].kind = "nonblocking"
        /\ Returned(l) /\ ~call[l].sent /\ ~call[l].got
        /\ call[l].ok /\ call[l].n > 0
        /\ worker[l].pc = "spawned"
        /\ ~helper[l].inProgress /\ helper[l].lastSynced = ZeroTime
        /\ curr[l].changes > 0
        /\ store = <<>>

\* C31: an exchange is started only by a Sync call whose now is at least
\* the sync interval after the now of the call that started the
\* previous exchange, whether that exchange succeeded or failed; the
\* time of the last start changes only when an exchange is started, so
\* a call right after a failed exchange starts none.
C31_NoImmediateRetry ==
    [][\A l \in DOMAIN cfg :
          /\ helper'[l].lastSynced # helper[l].lastSynced =>
                 CallStart(l) /\ call'[l].sent
          /\ (cfg[l].kind # "local" /\ CallStart(l)) =>
                 /\ call'[l].sent =>
                        /\ \/ helper[l].lastSynced = ZeroTime
                           \/ call'[l].now - helper[l].lastSynced
                                >= cfg[l].interval
                        /\ helper'[l].lastSynced = call'[l].now
                 /\ (/\ call[l].got /\ ~call[l].resp.ok
                     /\ call'[l].now - helper[l].lastSynced
                          < cfg[l].interval) =>
                        ~call'[l].sent /\ store' = store]_vars

C31_Witness ==
    \E l \in DOMAIN cfg :
        /\ cfg[l].kind # "local"
        /\ Returned(l) /\ call[l].sent /\ call[l].got
        /\ ~call[l].resp.ok
        /\ curr[l].changes > 0
        /\ helper[l].lastSynced = call[l].now
        /\ ~helper[l].inProgress
        /\ ~isTimeUp(helper[l], call[l].now, cfg[l].interval)

\* C32: every AllowN call runs the Sync of the current window once, with
\* the call's now, whether the request was admitted or rejected: after
\* the decision, on the window as the decision and the increment left
\* it, and before the lock is released; a due Sync exchanges on the
\* reject path as on the admit path; the previous window is not
\* touched by it.
C32_SyncOncePerCall ==
    [][\A l \in DOMAIN cfg : \A t \in Threads :
          /\ (threads'[t].pc = "synced" /\ threads[t].pc # "synced") =>
                 /\ threads[t].pc = "decided"
                 /\ mu[l] /\ mu'[l]
                 /\ threads[t].w = Decide(cfg[l].kind, curr[l],
                                          threads[t].ok, threads[t].n)
                 /\ call'[l].now = threads[t].now
                 /\ call'[l].ok = threads[t].ok
                 /\ call'[l].add = threads[t].w
                 /\ (cfg[l].kind = "blocking"
                     /\ isTimeUp(helper[l], threads[t].now, cfg[l].interval))
                        => /\ call'[l].sent
                           /\ call'[l].steps[1].op = "makeRequest"
                 /\ (cfg[l].kind = "nonblocking"
                     /\ isTimeUp(helper[l], threads[t].now, cfg[l].interval)
                     /\ worker[l].pc = "recv")
                        => /\ call'[l].sent
                           /\ worker'[l].req = makeSyncRequest(threads[t].w)
                 /\ prev'[l] = prev[l]
          /\ (threads[t].pc = "synced" /\ threads'[t].pc # "synced") =>
                 /\ threads'[t].pc = "done"
                 /\ mu[l] /\ ~mu'[l]
                 /\ prev'[l] = prev[l]
          /\ (threads[t].op = "AllowN" /\ threads'[t].pc = "done"
              /\ threads[t].pc # "done") => threads[t].pc = "synced"
          /\ (call'[l].sent /\ ~call[l].sent) =>
                 \E u \in Threads :
                     threads[u].pc = "decided" /\ threads'[u].pc = "synced"]_vars

C32_Witness ==
    \E l \in DOMAIN cfg : \E t \in Threads :
        /\ cfg[l].kind # "local"
        /\ threads[t].op = "AllowN" /\ threads[t].pc = "done"
        /\ ~threads[t].ok
        /\ call[l].now = threads[t].now /\ ~call[l].ok
        /\ call[l].sent
        /\ curr[l].count > 0

\* C33: a second call of Stop on a Non-blocking synchronizer closes the
\* closed stopC and panics: it never returns, and once it has panicked
\* the state stays as it is.
C33_SecondStopPanics ==
    [][\A l \in DOMAIN cfg :
          /\ (cfg[l].kind = "nonblocking" /\ stopper'[l].calls >= 2) =>
                 stopper'[l].pc = "panic" /\ Panicked'
          /\ (cfg[l].kind = "nonblocking"
              /\ stopper'[l].calls = stopper[l].calls + 1 /\ stopC[l]) =>
                 stopper'[l].pc = "panic"
          /\ stopper[l].pc = "panic" => stopper'[l].pc = "panic"]_vars

C33_Witness ==
    \E l \in DOMAIN cfg :
        /\ cfg[l].kind = "nonblocking"
        /\ stopper[l].calls = 2 /\ stopper[l].pc = "panic"
        /\ stopC[l] /\ exitC[l]
        /\ worker[l].pc = "exited"

\* C34: while a Non-blocking synchronizer has not been stopped, its
\* in-progress flag is set exactly while the background task holds a
\* request whose response Sync has not received: the task then is
\* calling the Datastore for that request or waiting to deliver the
\* response; the flag is set when the request is handed over and
\* cleared when the response is received.
C34_FlagIffOutstanding ==
    /\ [](\A l \in DOMAIN cfg :
            (cfg[l].kind = "nonblocking" /\ ~stopC[l]) =>
                /\ helper[l].inProgress = (worker[l].pc \in {"call", "send"})
                /\ helper[l].inProgress =>
                       worker[l].req.start <= curr[l].start
                /\ (helper[l].inProgress /\ worker[l].pc = "call") =>
                       worker[l].resp = NoResp)
    /\ [][\A l \in DOMAIN cfg :
            (cfg[l].kind = "nonblocking" /\ ~stopC'[l]) =>
                /\ (~helper[l].inProgress /\ helper'[l].inProgress) =>
                       /\ worker[l].pc = "recv" /\ worker'[l].pc = "call"
                       /\ worker'[l].req = makeSyncRequest(call'[l].add)
                /\ (helper[l].inProgress /\ ~helper'[l].inProgress) =>
                       /\ worker[l].pc = "send" /\ worker'[l].pc = "recv"
                       /\ call'[l].resp = worker[l].resp]_vars

C34_Witness ==
    \E l \in DOMAIN cfg :
        /\ cfg[l].kind = "nonblocking" /\ ~stopC[l]
        /\ ~mu[l]
        /\ helper[l].inProgress
        /\ worker[l].pc = "call" /\ worker[l].req.changes > 0
        /\ worker[l].req.start < curr[l].start

\* C35: the start of the current window never decreases, whatever the
\* order of the now arguments: a call whose now lies before the start of
\* the current window does not roll over, and advance leaves the start
\* and the count of both windows unchanged.
C35_StartNeverDecreases ==
    [][\A l \in DOMAIN cfg :
          /\ curr'[l].start >= curr[l].start
          /\ prev'[l].start >= prev[l].start
          /\ (CallStart(l) /\ call'[l].now < curr[l].start) =>
                 /\ call'[l].diff < 1
                 /\ call'[l].dec.curr = curr[l]
                 /\ call'[l].dec.prev = prev[l]
                 /\ curr'[l].start = curr[l].start
                 /\ prev'[l] = prev[l]]_vars

C35_Witness ==
    \E l \in DOMAIN cfg :
        /\ Returned(l)
        /\ call[l].now < curr[l].start
        /\ call[l].now < clock
        /\ call[l].dec.curr.count > 0
        /\ prev[l].count > 0
        /\ prev[l].start + cfg[l].size = curr[l].start

\* C36: for a limiter with Local windows whose limit is not changed and
\* whose calls have n >= 0 and nows that do not decrease, the counts of
\* the current and of the previous window are between 0 and the limit
\* in every reachable state.
C36_CountsWithinLimit ==
    \A l \in DOMAIN cfg :
        cfg[l].kind = "local" =>
            /\ limit[l] = cfg[l].limit
            /\ 0 <= curr[l].count /\ curr[l].count <= limit[l]
            /\ 0 <= prev[l].count /\ prev[l].count <= limit[l]

C36_Witness ==
    \E l \in DOMAIN cfg :
        /\ cfg[l].kind = "local"
        /\ Returned(l) /\ ~call[l].ok /\ call[l].n > 0
        /\ curr[l].count > 0 /\ prev[l].count > 0
        /\ curr[l].count + call[l].n > limit[l]
        /\ call[l].count > curr[l].count

\* C37: in every state of a limiter with a SyncWindow, under either
\* synchronizer, the pending changes are between 0 and the count; they
\* are 0 after a rollover, grow by n in a call that admits n events and
\* in no other step, so they never exceed the sum of the n admitted since
\* the last Reset.
C37_PendingWithinCount ==
    /\ [](\A l \in DOMAIN cfg :
             cfg[l].kind # "local" =>
                 /\ 0 <= curr[l].changes
                 /\ curr[l].changes <= curr[l].count)
    /\ [][\A l \in DOMAIN cfg :
             cfg[l].kind # "local" =>
                 /\ CallStart(l) =>
                        /\ call'[l].dec.curr.changes =
                               IF call'[l].diff >= 1 THEN 0 ELSE curr[l].changes
                        /\ call'[l].add.changes =
                               call'[l].dec.curr.changes
                                   + (IF call'[l].ok THEN call'[l].n ELSE 0)
                        /\ curr'[l].changes <= call'[l].add.changes
                 /\ ~CallStart(l) => curr'[l].changes <= curr[l].changes]_vars

C37_Witness ==
    \E l \in DOMAIN cfg :
        /\ cfg[l].kind # "local"
        /\ Returned(l)
        /\ call[l].ok
        /\ call[l].n > 0
        /\ call[l].diff < 1
        /\ call[l].dec.curr.changes > 0
        /\ curr[l].changes > call[l].n
        /\ curr[l].count > curr[l].changes

\* The events the limiters 1..k have admitted in the window that starts
\* at s.
RECURSIVE AdmittedUpTo(_, _)
AdmittedUpTo(k, s) ==
    IF k = 0 THEN 0
    ELSE AdmittedUpTo(k - 1, s)
             + (IF s \in DOMAIN rounds[k].sums THEN rounds[k].sums[s] ELSE 0)

\* C38: with two limiters on one Datastore, whatever the interleaving of
\* admissions, rollovers, exchanges, failed exchanges and stale
\* responses, the total the Datastore holds for a window start never
\* exceeds the events the limiters have admitted in the window with that
\* start.
C38_NoDoubleDelivery ==
    \A s \in DOMAIN store :
        store[s] <= AdmittedUpTo(Cardinality(DOMAIN cfg), s)

C38_Witness ==
    \E l \in DOMAIN cfg :
        /\ Returned(l)
        /\ call[l].got
        /\ call[l].resp.ok
        /\ call[l].resp.changes > 0
        /\ call[l].resp.start < curr[l].start
        /\ StoreGet(store, call[l].resp.start) >= 2
        /\ StoreGet(store, call[l].resp.start)
               = AdmittedUpTo(Cardinality(DOMAIN cfg), call[l].resp.start)
        /\ \A k \in DOMAIN cfg : call[l].resp.start \in DOMAIN rounds[k].sums

\* C39: the total a successful exchange returns is the Datastore's total
\* for the request's start after the exchange (otherChanges is that
\* total minus the request's count); right after a window handles a
\* successful response for its current start, its count minus its
\* pending changes is that total, also when events were admitted between
\* the request and the response; after a Blocking Sync the count is the
\* total and no change is pending.
C39_CountMinusPendingIsTotal ==
    [][\A l \in DOMAIN cfg :
          /\ (worker[l].pc = "call" /\ worker'[l].pc = "send"
                  /\ worker'[l].resp.ok) =>
                 worker'[l].resp.other + worker[l].req.count
                     = StoreGet(store', worker[l].req.start)
          /\ (HandledNonblocking(l) /\ call'[l].resp.ok
                  /\ call'[l].resp.start = curr[l].start) =>
                 /\ call'[l].resp = worker[l].resp
                 /\ curr'[l].count - curr'[l].changes
                        = worker[l].resp.other + worker[l].req.count
          /\ (HandledBlocking(l) /\ call'[l].resp.ok) =>
                 /\ curr'[l].count = StoreGet(store', curr'[l].start)
                 /\ curr'[l].changes = 0]_vars

C39_Witness ==
    \E l \in DOMAIN cfg :
        /\ cfg[l].kind = "nonblocking"
        /\ Returned(l) /\ call[l].got
        /\ call[l].resp.ok /\ call[l].resp.start = curr[l].start
        /\ call[l].resp.changes > 0 /\ call[l].resp.other > 0
        /\ curr[l].changes > 0
        /\ curr[l].count - curr[l].changes
               = call[l].resp.changes + call[l].resp.other

\* A step in which a call begins at an instant that is the sync interval
\* or more after the last exchange was begun.
Advancing(l) ==
    /\ CallStart(l)
    /\ \/ helper[l].lastSynced = ZeroTime
       \/ call'[l].now - helper[l].lastSynced >= cfg[l].interval

\* A step in which an exchange with the Datastore fails.
FailedExchange(l) ==
    \/ worker[l].pc = "call" /\ worker'[l].pc = "send" /\ ~worker'[l].resp.ok
    \/ cfg[l].kind = "blocking" /\ CallStart(l) /\ call'[l].got
           /\ ~call'[l].resp.ok

\* A step in which a call admits events.
Admitting(l) == CallStart(l) /\ call'[l].ok /\ call'[l].n > 0

====
